---- MODULE Spec2Model ----
(***************************************************************************)
(* ARC (ARCtangent-A4 / ARCompact) instruction analyser of the IDA ARC     *)
(* processor module, thirdparty/ida_sdk/module/arc/ana.cpp.                *)
(*                                                                         *)
(* Conventions.  32-bit quantities that the C code keeps in int / uint32 / *)
(* ea_t are represented by their two's-complement residue in              *)
(* -2^31 .. 2^31-1, so that equality in the model is equality of the bit   *)
(* pattern.  The instruction stream is the sequence of 16-bit words that   *)
(* starts at cmd.ea; cmd.size is the read cursor in bytes.                 *)
(***************************************************************************)
EXTENDS Integers, Sequences, FiniteSets, TLC

VARIABLES
  pc,          \* "idle": the kernel has prepared cmd; "done": ana() has returned
  is_a4,       \* TRUE: ARCtangent-A4 (legacy) encoding, FALSE: ARCompact
  idpflags,    \* subset of {"ARC_SIMPLIFY", "ARC_INLINECONST"}
  stream,      \* the 16-bit words of the byte stream starting at cmd.ea
  readable,    \* the host's answer to isEnabled() ("na" when it was not asked)
  cmd,         \* the instruction being built (insn_t cmd)
  got_limm,    \* global: long immediate already fetched
  g_limm,      \* static local of get_limm(): the cached long immediate
  msgs,        \* diagnostics emitted by msg() during the last call
  entry,       \* got_limm / g_limm as they were when the last call started
  raw,         \* cmd as left by the decoder and fix_ldst(), before the optional passes
  sz,          \* the local sz of ana(): what ana_old()/ana_compact() returned
  ret          \* what ana() returned

vars == <<pc, is_a4, idpflags, stream, readable, cmd, got_limm, g_limm, msgs, entry, raw, sz, ret>>

(***************************************************************************)
(* Bounds of the model.                                                    *)
(***************************************************************************)
MaxEa == 3        \* instruction addresses 0 .. MaxEa

(***************************************************************************)
(* Program constants.                                                      *)
(***************************************************************************)
\* register numbers and reserved register codes (arc.hpp)
R0 == 0
GP == 26
SP == 28
BLINK == 31
SHIMM_F == 61
LIMM == 62
SHIMM == 63
PCL == 63

\* cmd.auxpref bits (arc.hpp)
aux_cmask == 31       \* 0x1F  condition code
aux_f == 256          \* 0x100 .f
aux_nmask == 96       \* 0x60  delay slot mode
aux_d == 32           \* 0x20  .d
aux_amask == 24       \* 0x18  address write-back mode
aux_a == 8            \* 0x08  .a
aux_as == 24          \* 0x18  .as
aux_zmask == 6        \* 0x06  access size
aux_l == 0
aux_w == 4
aux_b == 2
aux_x == 1
aux_pcload == 512     \* 0x200

\* condition codes (arc.hpp)
cEQ == 1
cNE == 2
cLO == 5
cHS == 6
cGT == 9
cGE == 10
cLT == 11
cLE == 12
cHI == 13
cLS == 14

\* enum aux_flags_t
AUX_B == 1
AUX_W == 2
Q_4_0 == 4
AAZZXD_23_15 == 8
DAAZZX_11_6 == 16
DAAZZR_5_0 == 32
AUX_D == 64
AUX_X == 128
AUX_CND == 256
N_5 == 512
AUX_GEN == 1024
AUX_GEN2 == 2048

(***************************************************************************)
(* Bit arithmetic.                                                         *)
(***************************************************************************)
\* #define BITS(val, high, low): the unsigned field high..low of val >= 0
BITS(val, high, low) == (val \div (2^low)) % (2^(high - low + 1))

\* x with mask bit number k set / tested (k is the bit's number)
TestBit(x, k) == BITS(x, k, k) = 1

\* (x & ~field) | (v << low) for the field high..low
SetBits(x, high, low, v) == x - BITS(x, high, low) * (2^low) + v * (2^low)

\* x ^ m for a single-bit mask m = 1 << k, x >= 0
XorBit(x, k) == IF TestBit(x, k) THEN x - 2^k ELSE x + 2^k

\* SIGNEXT() that only masks x to its b low bits
SIGNEXT_mask_only(x, b) == x % (2^b)

\* static sval_t SIGNEXT(sval_t x, int b)
SIGNEXT(x, b) ==
  LET m  == 2^(b - 1)
      x1 == x % (2^b)
  IN  XorBit(x1, b - 1) - m

\* #define SBITS(val, high, low)
SBITS(val, high, low) == SIGNEXT(BITS(val, high, low), high - low + 1)

(***************************************************************************)
(* Operands and the instruction record.                                    *)
(***************************************************************************)
\* op_t as the kernel hands it over: all fields zero, n = the slot's number
VoidOp(k) ==
  [n |-> k, type |-> "o_void", reg |-> 0, secreg |-> 0, membase |-> 0,
   value |-> 0, addr |-> 0, offb |-> 0, dtyp |-> "dt_byte"]

\* insn_t cmd as the kernel hands it to ana(): zero-filled, positioned at ea
FreshCmd(a) ==
  [ea |-> a, ip |-> a, itype |-> "", auxpref |-> 0, size |-> 0,
   Operands |-> <<VoidOp(0), VoidOp(1), VoidOp(2)>>]

\* the decoder's working state: cmd and the two globals, plus the diagnostics
Ctx(c, got, lim) == [cmd |-> c, got_limm |-> got, g_limm |-> lim, msgs |-> <<>>]

Op(m, k) == m.cmd.Operands[k + 1]
SetOp(m, k, op) == [m EXCEPT !.cmd.Operands[k + 1] = op]

\* opcodes whose canonical feature word has CF_CHG1 (ins.cpp: the first
\* operand is written)
CF_CHG1_insns ==
  {"ld", "lr", "asr", "lsr", "ror", "rrc", "sexb", "sexw", "extb", "extw",
   "swap", "norm", "add", "adc", "sub", "sbc", "and", "or", "bic", "xor",
   "asl", "lsl", "rlc", "max", "min", "mov", "abs", "not", "neg", "ex",
   "rsub", "bset", "bclr", "bxor", "bmsk", "add1", "add2", "add3",
   "sub1", "sub2", "sub3", "mpy", "mpyh", "mpyhu", "mpyu",
   "sat16", "rnd16", "abssw", "abss", "negsw", "negs", "normw",
   "adds", "subs", "divaw", "asls", "asrs", "addsdw", "subsdw",
   "muldw", "muludw", "mulrdw", "macdw", "macudw", "macrdw", "msubdw",
   "mululw", "mullw", "mulflw", "maclw", "macflw", "machulw", "machlw",
   "machflw", "mulhlw", "mulhflw", "pop"}

\* (cmd.get_canon_feature() & CF_CHG1) != 0
HasCF_CHG1(itype) == itype \in CF_CHG1_insns

(***************************************************************************)
(* The byte stream (ua_next_word / ua_next_long of the kernel).            *)
(***************************************************************************)
\* the 16-bit word under the cursor
CurWord(m, s) == s[(m.cmd.size \div 2) + 1]

\* the cursor moved past one 16-bit word
Advance(m) == [m EXCEPT !.cmd.size = @ + 2]

\* int made of two 16-bit halves: (hi << 16) | lo in a 32-bit int
Int32(hi, lo) ==
  IF hi >= 32768 THEN (hi - 65536) * 65536 + lo ELSE hi * 65536 + lo

(***************************************************************************)
(* The opcode tables.                                                      *)
(***************************************************************************)
\* an operand description: a tag of op_fields_t, possibly or-ed with O_IND
K(tag) == [tag |-> tag, ind |-> FALSE]
Ind(tag) == [tag |-> tag, ind |-> TRUE]
NoOp == [tag |-> "0", ind |-> FALSE]

\* a terminal line { mnem, aux, {ops}, NULL }
T(mnem, aux, o1, o2, o3) ==
  [mnem |-> mnem, hibit |-> FALSE, high1 |-> 0, low1 |-> 0, high2 |-> 0, low2 |-> 0,
   aux |-> aux, ops |-> <<o1, o2, o3>>, subtable |-> ""]

\* the line { 0 }
Z == T("", 0, NoOp, NoOp, NoOp)

\* #define SUBTABLE(high, low, name): mnem = 0x80000000 | (high << 8) | low
SUBTABLE(high, low, name) ==
  [mnem |-> "", hibit |-> TRUE, high1 |-> 0, low1 |-> 0, high2 |-> high, low2 |-> low,
   aux |-> 0, ops |-> <<NoOp, NoOp, NoOp>>, subtable |-> name]

\* #define SUBTABLE2(high1, low1, high2, low2, name)
SUBTABLE2(h1, l1, h2, l2, name) ==
  [mnem |-> "", hibit |-> TRUE, high1 |-> h1, low1 |-> l1, high2 |-> h2, low2 |-> l2,
   aux |-> 0, ops |-> <<NoOp, NoOp, NoOp>>, subtable |-> name]

\* arcompact_maj0 with an operand tag decode_operand() has no case for and an
\* aux bit decode_aux() has no if for
arcompact_maj0_stray ==
  [size |-> 2, rows |-> <<
    T("b", Q_4_0 + N_5, K("S23"), NoOp, NoOp),
    T("b", N_5 + 4096, K("S25"), NoOp, NoOp) >>]

\* arcompact_maj0[2] (ana.cpp 576-579); entries past the initializers are zero-filled
arcompact_maj0 ==
  [size |-> 2, rows |-> <<
    T("b", Q_4_0 + N_5, K("S21"), NoOp, NoOp),
    T("b", N_5, K("S25"), NoOp, NoOp) >>]

\* arcompact_bl[2] (ana.cpp 582-585); entries past the initializers are zero-filled
arcompact_bl ==
  [size |-> 2, rows |-> <<
    T("bl", Q_4_0 + N_5, K("S21L"), NoOp, NoOp),
    T("bl", N_5, K("S25L"), NoOp, NoOp) >>]

\* arcompact_br_regreg[16] (ana.cpp 588-605); entries past the initializers are zero-filled
arcompact_br_regreg ==
  [size |-> 16, rows |-> <<
    T("br", AUX_CND + cEQ + N_5, K("fB32"), K("fC32"), K("S9")),
    T("br", AUX_CND + cNE + N_5, K("fB32"), K("fC32"), K("S9")),
    T("br", AUX_CND + cLT + N_5, K("fB32"), K("fC32"), K("S9")),
    T("br", AUX_CND + cGE + N_5, K("fB32"), K("fC32"), K("S9")),
    T("br", AUX_CND + cLO + N_5, K("fB32"), K("fC32"), K("S9")),
    T("br", AUX_CND + cHS + N_5, K("fB32"), K("fC32"), K("S9")),
    Z,
    Z,
    Z,
    Z,
    Z,
    Z,
    Z,
    Z,
    T("bbit0", N_5, K("fB32"), K("fC32"), K("S9")),
    T("bbit1", N_5, K("fB32"), K("fC32"), K("S9")) >>]

\* arcompact_br_regimm[16] (ana.cpp 608-625); entries past the initializers are zero-filled
arcompact_br_regimm ==
  [size |-> 16, rows |-> <<
    T("br", AUX_CND + cEQ + N_5, K("fB32"), K("U6"), K("S9")),
    T("br", AUX_CND + cNE + N_5, K("fB32"), K("U6"), K("S9")),
    T("br", AUX_CND + cLT + N_5, K("fB32"), K("U6"), K("S9")),
    T("br", AUX_CND + cGE + N_5, K("fB32"), K("U6"), K("S9")),
    T("br", AUX_CND + cLO + N_5, K("fB32"), K("U6"), K("S9")),
    T("br", AUX_CND + cHS + N_5, K("fB32"), K("U6"), K("S9")),
    Z,
    Z,
    Z,
    Z,
    Z,
    Z,
    Z,
    Z,
    T("bbit0", N_5, K("fB32"), K("U6"), K("S9")),
    T("bbit1", N_5, K("fB32"), K("U6"), K("S9")) >>]

\* arcompact_br[4] (ana.cpp 628-631); entries past the initializers are zero-filled
arcompact_br ==
  [size |-> 4, rows |-> <<
    SUBTABLE(3, 0, "arcompact_br_regreg"),
    SUBTABLE(3, 0, "arcompact_br_regimm") >>]

\* arcompact_maj1[64] (ana.cpp 634-637); entries past the initializers are zero-filled
arcompact_maj1 ==
  [size |-> 64, rows |-> <<
    SUBTABLE(17, 17, "arcompact_bl"),
    SUBTABLE(4, 4, "arcompact_br") >>]

\* arcompact_zop[64] (ana.cpp 640-689); entries past the initializers are zero-filled
arcompact_zop ==
  [size |-> 64, rows |-> <<
    Z,
    T("sleep", 0, K("GENC"), NoOp, NoOp),
    T("swi", 0, NoOp, NoOp, NoOp),
    T("sync", 0, NoOp, NoOp, NoOp),
    T("rtie", 0, NoOp, NoOp, NoOp),
    T("brk", 0, NoOp, NoOp, NoOp),
    Z,
    Z,
    Z,
    Z,
    Z,
    Z,
    Z,
    Z,
    Z,
    Z,
    Z,
    Z,
    Z,
    Z,
    Z,
    Z,
    Z,
    Z,
    Z,
    Z,
    Z,
    Z,
    Z,
    Z,
    Z,
    Z,
    Z,
    Z,
    Z,
    Z,
    Z,
    Z,
    Z,
    Z,
    Z,
    Z,
    Z,
    Z,
    Z,
    Z,
    Z,
    Z >>]

\* arcompact_sop[64] (ana.cpp 692-757); entries past the initializers are zero-filled
arcompact_sop ==
  [size |-> 64, rows |-> <<
    T("asl", 0, K("GENB"), K("GENC"), NoOp),
    T("asr", 0, K("GENB"), K("GENC"), NoOp),
    T("lsr", 0, K("GENB"), K("GENC"), NoOp),
    T("ror", 0, K("GENB"), K("GENC"), NoOp),
    T("rrc", 0, K("GENB"), K("GENC"), NoOp),
    T("sexb", 0, K("GENB"), K("GENC"), NoOp),
    T("sexw", 0, K("GENB"), K("GENC"), NoOp),
    T("extb", 0, K("GENB"), K("GENC"), NoOp),
    T("extw", 0, K("GENB"), K("GENC"), NoOp),
    T("abs", 0, K("GENB"), K("GENC"), NoOp),
    T("not", 0, K("GENB"), K("GENC"), NoOp),
    T("rlc", 0, K("GENB"), K("GENC"), NoOp),
    T("ex", 0, K("GENB"), Ind("GENC"), NoOp),
    Z,
    Z,
    Z,
    Z,
    Z,
    Z,
    Z,
    Z,
    Z,
    Z,
    Z,
    Z,
    Z,
    Z,
    Z,
    Z,
    Z,
    Z,
    Z,
    Z,
    Z,
    Z,
    Z,
    Z,
    Z,
    Z,
    Z,
    Z,
    Z,
    Z,
    Z,
    Z,
    Z,
    Z,
    Z,
    Z,
    Z,
    Z,
    Z,
    Z,
    Z,
    Z,
    Z,
    Z,
    Z,
    Z,
    Z,
    Z,
    Z,
    Z,
    SUBTABLE2(14, 12, 26, 24, "arcompact_zop") >>]

\* arcompact_maj4[64] (ana.cpp 760-825); entries past the initializers are zero-filled
arcompact_maj4 ==
  [size |-> 64, rows |-> <<
    T("add", AUX_GEN, K("GENA"), K("GENB"), K("GENC")),
    T("adc", AUX_GEN, K("GENA"), K("GENB"), K("GENC")),
    T("sub", AUX_GEN, K("GENA"), K("GENB"), K("GENC")),
    T("sbc", AUX_GEN, K("GENA"), K("GENB"), K("GENC")),
    T("and", AUX_GEN, K("GENA"), K("GENB"), K("GENC")),
    T("or", AUX_GEN, K("GENA"), K("GENB"), K("GENC")),
    T("bic", AUX_GEN, K("GENA"), K("GENB"), K("GENC")),
    T("xor", AUX_GEN, K("GENA"), K("GENB"), K("GENC")),
    T("max", AUX_GEN, K("GENA"), K("GENB"), K("GENC")),
    T("min", AUX_GEN, K("GENA"), K("GENB"), K("GENC")),
    T("mov", AUX_GEN, K("GENB"), K("GENC"), NoOp),
    T("tst", AUX_GEN2, K("GENB"), K("GENC"), NoOp),
    T("cmp", AUX_GEN2, K("GENB"), K("GENC"), NoOp),
    T("rcmp", AUX_GEN, K("GENB"), K("GENC"), NoOp),
    T("rsub", AUX_GEN, K("GENA"), K("GENB"), K("GENC")),
    T("bset", AUX_GEN, K("GENA"), K("GENB"), K("GENC")),
    T("bclr", AUX_GEN, K("GENA"), K("GENB"), K("GENC")),
    T("btst", AUX_GEN2, K("GENB"), K("GENC"), NoOp),
    T("bxor", AUX_GEN, K("GENA"), K("GENB"), K("GENC")),
    T("bmsk", AUX_GEN, K("GENA"), K("GENB"), K("GENC")),
    T("add1", AUX_GEN, K("GENA"), K("GENB"), K("GENC")),
    T("add2", AUX_GEN, K("GENA"), K("GENB"), K("GENC")),
    T("add3", AUX_GEN, K("GENA"), K("GENB"), K("GENC")),
    T("sub1", AUX_GEN, K("GENA"), K("GENB"), K("GENC")),
    T("sub2", AUX_GEN, K("GENA"), K("GENB"), K("GENC")),
    T("sub3", AUX_GEN, K("GENA"), K("GENB"), K("GENC")),
    T("mpy", AUX_GEN, K("GENA"), K("GENB"), K("GENC")),
    T("mpyh", AUX_GEN, K("GENA"), K("GENB"), K("GENC")),
    T("mpyhu", AUX_GEN, K("GENA"), K("GENB"), K("GENC")),
    T("mpyu", AUX_GEN, K("GENA"), K("GENB"), K("GENC")),
    Z,
    Z,
    T("j", AUX_GEN, Ind("GENC"), NoOp, NoOp),
    T("j", AUX_GEN + AUX_D, Ind("GENC"), NoOp, NoOp),
    T("jl", AUX_GEN, Ind("GENC"), NoOp, NoOp),
    T("jl", AUX_GEN + AUX_D, Ind("GENC"), NoOp, NoOp),
    Z,
    Z,
    Z,
    Z,
    T("lp", AUX_GEN2, K("GENC_PCREL"), NoOp, NoOp),
    T("flag", AUX_GEN2, K("GENC"), NoOp, NoOp),
    T("lr", 0, K("GENB"), Ind("GENC"), NoOp),
    T("sr", 0, K("GENB"), Ind("GENC"), NoOp),
    Z,
    Z,
    Z,
    SUBTABLE(5, 0, "arcompact_sop"),
    T("ld", AAZZXD_23_15, K("fA32"), K("fBC_IND"), NoOp),
    T("ld", AAZZXD_23_15, K("fA32"), K("fBC_IND"), NoOp),
    T("ld", AAZZXD_23_15, K("fA32"), K("fBC_IND"), NoOp),
    T("ld", AAZZXD_23_15, K("fA32"), K("fBC_IND"), NoOp),
    T("ld", AAZZXD_23_15, K("fA32"), K("fBC_IND"), NoOp),
    T("ld", AAZZXD_23_15, K("fA32"), K("fBC_IND"), NoOp),
    T("ld", AAZZXD_23_15, K("fA32"), K("fBC_IND"), NoOp),
    T("ld", AAZZXD_23_15, K("fA32"), K("fBC_IND"), NoOp),
    Z,
    Z,
    Z,
    Z,
    Z,
    Z,
    Z,
    Z >>]

\* arcompact_zop5[64] (ana.cpp 828-877); entries past the initializers are zero-filled
arcompact_zop5 ==
  [size |-> 64, rows |-> <<
    Z,
    Z,
    Z,
    Z,
    Z,
    Z,
    Z,
    Z,
    Z,
    Z,
    Z,
    Z,
    Z,
    Z,
    Z,
    Z,
    Z,
    Z,
    Z,
    Z,
    Z,
    Z,
    Z,
    Z,
    Z,
    Z,
    Z,
    Z,
    Z,
    Z,
    Z,
    Z,
    Z,
    Z,
    Z,
    Z,
    Z,
    Z,
    Z,
    Z,
    Z,
    Z,
    Z,
    Z,
    Z,
    Z,
    Z,
    Z >>]

\* arcompact_sop5[64] (ana.cpp 880-945); entries past the initializers are zero-filled
arcompact_sop5 ==
  [size |-> 64, rows |-> <<
    T("swap", AUX_GEN, K("GENB"), K("GENC"), NoOp),
    T("norm", AUX_GEN, K("GENB"), K("GENC"), NoOp),
    T("sat16", AUX_GEN, K("GENB"), K("GENC"), NoOp),
    T("rnd16", AUX_GEN, K("GENB"), K("GENC"), NoOp),
    T("abssw", AUX_GEN, K("GENB"), K("GENC"), NoOp),
    T("abss", AUX_GEN, K("GENB"), K("GENC"), NoOp),
    T("negsw", AUX_GEN, K("GENB"), K("GENC"), NoOp),
    T("negs", AUX_GEN, K("GENB"), K("GENC"), NoOp),
    T("normw", AUX_GEN, K("GENB"), K("GENC"), NoOp),
    Z,
    Z,
    Z,
    Z,
    Z,
    Z,
    Z,
    Z,
    Z,
    Z,
    Z,
    Z,
    Z,
    Z,
    Z,
    Z,
    Z,
    Z,
    Z,
    Z,
    Z,
    Z,
    Z,
    Z,
    Z,
    Z,
    Z,
    Z,
    Z,
    Z,
    Z,
    Z,
    Z,
    Z,
    Z,
    Z,
    Z,
    Z,
    Z,
    Z,
    Z,
    Z,
    Z,
    Z,
    Z,
    Z,
    Z,
    Z,
    Z,
    Z,
    Z,
    Z,
    Z,
    Z,
    SUBTABLE2(14, 12, 26, 24, "arcompact_zop5") >>]

\* arcompact_maj5[64] (ana.cpp 948-1013); entries past the initializers are zero-filled
arcompact_maj5 ==
  [size |-> 64, rows |-> <<
    T("asl", AUX_GEN, K("GENA"), K("GENB"), K("GENC")),
    T("lsr", AUX_GEN, K("GENA"), K("GENB"), K("GENC")),
    T("asr", AUX_GEN, K("GENA"), K("GENB"), K("GENC")),
    T("ror", AUX_GEN, K("GENA"), K("GENB"), K("GENC")),
    T("mul64", AUX_GEN, K("O_ZERO"), K("GENB"), K("GENC")),
    T("mulu64", AUX_GEN, K("O_ZERO"), K("GENB"), K("GENC")),
    T("adds", AUX_GEN, K("GENA"), K("GENB"), K("GENC")),
    T("subs", AUX_GEN, K("GENA"), K("GENB"), K("GENC")),
    T("divaw", AUX_GEN, K("GENA"), K("GENB"), K("GENC")),
    Z,
    T("asls", AUX_GEN, K("GENA"), K("GENB"), K("GENC")),
    T("asrs", AUX_GEN, K("GENB"), K("GENC"), K("GENC")),
    T("muldw", AUX_GEN, K("GENB"), K("GENC"), K("GENC")),
    T("muludw", AUX_GEN, K("GENB"), K("GENC"), K("GENC")),
    T("mulrdw", AUX_GEN, K("GENB"), K("GENC"), K("GENC")),
    Z,
    T("macdw", AUX_GEN, K("GENB"), K("GENC"), K("GENC")),
    T("macudw", AUX_GEN, K("GENB"), K("GENC"), K("GENC")),
    T("macrdw", AUX_GEN, K("GENB"), K("GENC"), K("GENC")),
    Z,
    T("msubdw", AUX_GEN, K("GENB"), K("GENC"), K("GENC")),
    Z,
    Z,
    Z,
    Z,
    Z,
    Z,
    Z,
    Z,
    Z,
    Z,
    Z,
    Z,
    Z,
    Z,
    Z,
    Z,
    Z,
    Z,
    Z,
    T("addsdw", AUX_GEN, K("GENA"), K("GENB"), K("GENC")),
    T("subsdw", AUX_GEN, K("GENA"), K("GENB"), K("GENC")),
    Z,
    Z,
    Z,
    Z,
    Z,
    SUBTABLE(5, 0, "arcompact_sop5"),
    T("mululw", AUX_GEN, K("GENB"), K("GENC"), K("GENC")),
    T("mullw", AUX_GEN, K("GENB"), K("GENC"), K("GENC")),
    T("mulflw", AUX_GEN, K("GENB"), K("GENC"), K("GENC")),
    T("maclw", AUX_GEN, K("GENB"), K("GENC"), K("GENC")),
    T("macflw", AUX_GEN, K("GENB"), K("GENC"), K("GENC")),
    T("machulw", AUX_GEN, K("GENB"), K("GENC"), K("GENC")),
    T("machlw", AUX_GEN, K("GENB"), K("GENC"), K("GENC")),
    T("machflw", AUX_GEN, K("GENB"), K("GENC"), K("GENC")),
    T("mulhlw", AUX_GEN, K("GENB"), K("GENC"), K("GENC")),
    T("mulhflw", AUX_GEN, K("GENB"), K("GENC"), K("GENC")),
    Z,
    Z,
    Z,
    Z,
    Z,
    Z >>]

\* arcompact_maj0C[4] (ana.cpp 1016-1021); entries past the initializers are zero-filled
arcompact_maj0C ==
  [size |-> 4, rows |-> <<
    T("ld", 0, K("fA16"), K("fBC16_IND"), NoOp),
    T("ld", AUX_B, K("fA16"), K("fBC16_IND"), NoOp),
    T("ld", AUX_W, K("fA16"), K("fBC16_IND"), NoOp),
    T("add", 0, K("fA16"), K("fB16"), K("fC16")) >>]

\* arcompact_maj0D[4] (ana.cpp 1024-1029); entries past the initializers are zero-filled
arcompact_maj0D ==
  [size |-> 4, rows |-> <<
    T("add", 0, K("fC16"), K("fB16"), K("U3")),
    T("sub", 0, K("fC16"), K("fB16"), K("U3")),
    T("asl", 0, K("fC16"), K("fB16"), K("U3")),
    T("asr", 0, K("fC16"), K("fB16"), K("U3")) >>]

\* arcompact_maj0E with the operands of line 0x01 in the order of line 0x03
arcompact_maj0E_swapped ==
  [size |-> 4, rows |-> <<
    T("add", 0, K("fB16"), K("fB16"), K("fH16")),
    T("mov", 0, K("fH16"), K("fB16"), NoOp),
    T("cmp", 0, K("fB16"), K("fH16"), NoOp),
    T("mov", 0, K("fH16"), K("fB16"), NoOp) >>]

\* arcompact_maj0E[4] (ana.cpp 1032-1037); entries past the initializers are zero-filled
arcompact_maj0E ==
  [size |-> 4, rows |-> <<
    T("add", 0, K("fB16"), K("fB16"), K("fH16")),
    T("mov", 0, K("fB16"), K("fH16"), NoOp),
    T("cmp", 0, K("fB16"), K("fH16"), NoOp),
    T("mov", 0, K("fH16"), K("fB16"), NoOp) >>]

\* arcompact_zop16[8] (ana.cpp 1041-1050); entries past the initializers are zero-filled
arcompact_zop16 ==
  [size |-> 8, rows |-> <<
    T("nop", 0, NoOp, NoOp, NoOp),
    T("unimp", 0, NoOp, NoOp, NoOp),
    Z,
    Z,
    T("j", AUX_CND + cEQ, Ind("R_BLINK"), NoOp, NoOp),
    T("j", AUX_CND + cNE, Ind("R_BLINK"), NoOp, NoOp),
    T("j", 0, Ind("R_BLINK"), NoOp, NoOp),
    T("j", AUX_D, Ind("R_BLINK"), NoOp, NoOp) >>]

\* arcompact_sop16[8] (ana.cpp 1054-1063); entries past the initializers are zero-filled
arcompact_sop16 ==
  [size |-> 8, rows |-> <<
    T("j", 0, Ind("fB16"), NoOp, NoOp),
    T("j", AUX_D, Ind("fB16"), NoOp, NoOp),
    T("jl", 0, Ind("fB16"), NoOp, NoOp),
    T("jl", AUX_D, Ind("fB16"), NoOp, NoOp),
    Z,
    Z,
    T("sub", AUX_CND + cNE, K("fB16"), K("fB16"), K("fB16")),
    SUBTABLE(10, 8, "arcompact_zop16") >>]

\* arcompact_maj0F[32] (ana.cpp 1067-1100); entries past the initializers are zero-filled
arcompact_maj0F ==
  [size |-> 32, rows |-> <<
    SUBTABLE(7, 5, "arcompact_sop16"),
    Z,
    T("sub", 0, K("fB16"), K("fB16"), K("fC16")),
    Z,
    T("and", 0, K("fB16"), K("fB16"), K("fC16")),
    T("or", 0, K("fB16"), K("fB16"), K("fC16")),
    T("bic", 0, K("fB16"), K("fB16"), K("fC16")),
    T("xor", 0, K("fB16"), K("fB16"), K("fC16")),
    Z,
    Z,
    Z,
    T("tst", 0, K("fB16"), K("fC16"), NoOp),
    T("mul64", 0, K("fB16"), K("fC16"), NoOp),
    T("sexb", 0, K("fB16"), K("fC16"), NoOp),
    T("sexw", 0, K("fB16"), K("fC16"), NoOp),
    T("extb", 0, K("fB16"), K("fC16"), NoOp),
    T("extw", 0, K("fB16"), K("fC16"), NoOp),
    T("abs", 0, K("fB16"), K("fC16"), NoOp),
    T("not", 0, K("fB16"), K("fC16"), NoOp),
    T("neg", 0, K("fB16"), K("fC16"), NoOp),
    T("add1", 0, K("fB16"), K("fB16"), K("fC16")),
    T("add2", 0, K("fB16"), K("fB16"), K("fC16")),
    T("add3", 0, K("fB16"), K("fB16"), K("fC16")),
    Z,
    T("asl", 0, K("fB16"), K("fB16"), K("fC16")),
    T("lsr", 0, K("fB16"), K("fB16"), K("fC16")),
    T("asr", 0, K("fB16"), K("fB16"), K("fC16")),
    T("asl", 0, K("fB16"), K("fC16"), NoOp),
    T("asr", 0, K("fB16"), K("fC16"), NoOp),
    T("lsr", 0, K("fB16"), K("fC16"), NoOp),
    T("trap", 0, NoOp, NoOp, NoOp),
    T("brk", 0, NoOp, NoOp, NoOp) >>]

\* arcompact_maj17[8] (ana.cpp 1103-1112); entries past the initializers are zero-filled
arcompact_maj17 ==
  [size |-> 8, rows |-> <<
    T("asl", 0, K("fB16"), K("fB16"), K("U5")),
    T("lsr", 0, K("fB16"), K("fB16"), K("U5")),
    T("asr", 0, K("fB16"), K("fB16"), K("U5")),
    T("sub", 0, K("fB16"), K("fB16"), K("U5")),
    T("bset", 0, K("fB16"), K("fB16"), K("U5")),
    T("bclr", 0, K("fB16"), K("fB16"), K("U5")),
    T("bmsk", 0, K("fB16"), K("fB16"), K("U5")),
    T("btst", 0, K("fB16"), K("U5"), NoOp) >>]

\* arcompact_sp_addsub[8] (ana.cpp 1115-1124); entries past the initializers are zero-filled
arcompact_sp_addsub ==
  [size |-> 8, rows |-> <<
    T("add", 0, K("R_SP"), K("R_SP"), K("U7L")),
    T("sub", 0, K("R_SP"), K("R_SP"), K("U7L")),
    Z,
    Z,
    Z,
    Z,
    Z,
    Z >>]

\* arcompact_sp_pops[32] (ana.cpp 1127-1160); entries past the initializers are zero-filled
arcompact_sp_pops ==
  [size |-> 32, rows |-> <<
    Z,
    T("pop", 0, K("fB16"), NoOp, NoOp),
    Z,
    Z,
    Z,
    Z,
    Z,
    Z,
    Z,
    Z,
    Z,
    Z,
    Z,
    Z,
    Z,
    Z,
    Z,
    T("pop", 0, K("R_BLINK"), NoOp, NoOp),
    Z,
    Z,
    Z,
    Z,
    Z,
    Z,
    Z,
    Z,
    Z,
    Z,
    Z,
    Z,
    Z,
    Z >>]

\* arcompact_sp_pushs[32] (ana.cpp 1163-1196); entries past the initializers are zero-filled
arcompact_sp_pushs ==
  [size |-> 32, rows |-> <<
    Z,
    T("push", 0, K("fB16"), NoOp, NoOp),
    Z,
    Z,
    Z,
    Z,
    Z,
    Z,
    Z,
    Z,
    Z,
    Z,
    Z,
    Z,
    Z,
    Z,
    Z,
    T("push", 0, K("R_BLINK"), NoOp, NoOp),
    Z,
    Z,
    Z,
    Z,
    Z,
    Z,
    Z,
    Z,
    Z,
    Z,
    Z,
    Z,
    Z,
    Z >>]

\* arcompact_maj18[8] (ana.cpp 1200-1209); entries past the initializers are zero-filled
arcompact_maj18 ==
  [size |-> 8, rows |-> <<
    T("ld", 0, K("fB16"), K("SP_U7"), NoOp),
    T("ld", AUX_B, K("fB16"), K("SP_U7"), NoOp),
    T("st", 0, K("fB16"), K("SP_U7"), NoOp),
    T("st", AUX_B, K("fB16"), K("SP_U7"), NoOp),
    T("add", 0, K("fB16"), K("R_SP"), K("U7L")),
    SUBTABLE(10, 8, "arcompact_sp_addsub"),
    SUBTABLE(4, 0, "arcompact_sp_pops"),
    SUBTABLE(4, 0, "arcompact_sp_pushs") >>]

\* arcompact_maj19[4] (ana.cpp 1213-1218); entries past the initializers are zero-filled
arcompact_maj19 ==
  [size |-> 4, rows |-> <<
    T("ld", 0, K("R_R0"), K("GP_S11"), NoOp),
    T("ld", AUX_B, K("R_R0"), K("GP_S9"), NoOp),
    T("ld", AUX_W, K("R_R0"), K("GP_S10"), NoOp),
    T("add", 0, K("R_R0"), K("R_GP"), K("S11")) >>]

\* arcompact_maj1C[2] (ana.cpp 1221-1224); entries past the initializers are zero-filled
arcompact_maj1C ==
  [size |-> 2, rows |-> <<
    T("add", 0, K("fB16"), K("fB16"), K("U7")),
    T("cmp", 0, K("fB16"), K("U7"), NoOp) >>]

\* arcompact_maj1D[2] (ana.cpp 1227-1230); entries past the initializers are zero-filled
arcompact_maj1D ==
  [size |-> 2, rows |-> <<
    T("br", AUX_CND + cEQ, K("fB16"), K("O_ZERO"), K("S8")),
    T("br", AUX_CND + cNE, K("fB16"), K("O_ZERO"), K("S8")) >>]

\* arcompact_bcc16[8] (ana.cpp 1233-1242); entries past the initializers are zero-filled
arcompact_bcc16 ==
  [size |-> 8, rows |-> <<
    T("b", AUX_CND + cGT, K("S7"), NoOp, NoOp),
    T("b", AUX_CND + cGE, K("S7"), NoOp, NoOp),
    T("b", AUX_CND + cLT, K("S7"), NoOp, NoOp),
    T("b", AUX_CND + cLE, K("S7"), NoOp, NoOp),
    T("b", AUX_CND + cHI, K("S7"), NoOp, NoOp),
    T("b", AUX_CND + cHS, K("S7"), NoOp, NoOp),
    T("b", AUX_CND + cLO, K("S7"), NoOp, NoOp),
    T("b", AUX_CND + cLS, K("S7"), NoOp, NoOp) >>]

\* arcompact_maj1E[4] (ana.cpp 1245-1250); entries past the initializers are zero-filled
arcompact_maj1E ==
  [size |-> 4, rows |-> <<
    T("b", 0, K("S10"), NoOp, NoOp),
    T("b", AUX_CND + cEQ, K("S10"), NoOp, NoOp),
    T("b", AUX_CND + cNE, K("S10"), NoOp, NoOp),
    SUBTABLE(8, 6, "arcompact_bcc16") >>]

\* arcompact_major[32] (ana.cpp 1253-1286); entries past the initializers are zero-filled
arcompact_major ==
  [size |-> 32, rows |-> <<
    SUBTABLE(16, 16, "arcompact_maj0"),
    SUBTABLE(16, 16, "arcompact_maj1"),
    T("ld", DAAZZX_11_6, K("fA32"), K("fB_S9"), NoOp),
    T("st", DAAZZR_5_0, K("fC32"), K("fB_S9"), NoOp),
    SUBTABLE(21, 16, "arcompact_maj4"),
    SUBTABLE(21, 16, "arcompact_maj5"),
    Z,
    Z,
    Z,
    Z,
    Z,
    Z,
    SUBTABLE(4, 3, "arcompact_maj0C"),
    SUBTABLE(4, 3, "arcompact_maj0D"),
    SUBTABLE(4, 3, "arcompact_maj0E"),
    SUBTABLE(4, 0, "arcompact_maj0F"),
    T("ld", 0, K("fC16"), K("fB_U7"), NoOp),
    T("ld", AUX_B, K("fC16"), K("fB_U5"), NoOp),
    T("ld", AUX_W, K("fC16"), K("fB_U6"), NoOp),
    T("ld", AUX_W + AUX_X, K("fC16"), K("fB_U6"), NoOp),
    T("st", 0, K("fC16"), K("fB_U7"), NoOp),
    T("st", AUX_B, K("fC16"), K("fB_U5"), NoOp),
    T("st", AUX_W, K("fC16"), K("fB_U6"), NoOp),
    SUBTABLE(7, 5, "arcompact_maj17"),
    SUBTABLE(7, 5, "arcompact_maj18"),
    SUBTABLE(10, 9, "arcompact_maj19"),
    T("ld", 0, K("fB16"), K("PCL_U10"), NoOp),
    T("mov", 0, K("fB16"), K("U8"), NoOp),
    SUBTABLE(7, 7, "arcompact_maj1C"),
    SUBTABLE(7, 7, "arcompact_maj1D"),
    SUBTABLE(10, 9, "arcompact_maj1E"),
    T("bl", 0, K("S13"), NoOp, NoOp) >>]

TableOf(name) ==
  CASE name = "arcompact_maj0" -> arcompact_maj0
    [] name = "arcompact_bl" -> arcompact_bl
    [] name = "arcompact_br_regreg" -> arcompact_br_regreg
    [] name = "arcompact_br_regimm" -> arcompact_br_regimm
    [] name = "arcompact_br" -> arcompact_br
    [] name = "arcompact_maj1" -> arcompact_maj1
    [] name = "arcompact_zop" -> arcompact_zop
    [] name = "arcompact_sop" -> arcompact_sop
    [] name = "arcompact_maj4" -> arcompact_maj4
    [] name = "arcompact_zop5" -> arcompact_zop5
    [] name = "arcompact_sop5" -> arcompact_sop5
    [] name = "arcompact_maj5" -> arcompact_maj5
    [] name = "arcompact_maj0C" -> arcompact_maj0C
    [] name = "arcompact_maj0D" -> arcompact_maj0D
    [] name = "arcompact_maj0E" -> arcompact_maj0E
    [] name = "arcompact_zop16" -> arcompact_zop16
    [] name = "arcompact_sop16" -> arcompact_sop16
    [] name = "arcompact_maj0F" -> arcompact_maj0F
    [] name = "arcompact_maj17" -> arcompact_maj17
    [] name = "arcompact_sp_addsub" -> arcompact_sp_addsub
    [] name = "arcompact_sp_pops" -> arcompact_sp_pops
    [] name = "arcompact_sp_pushs" -> arcompact_sp_pushs
    [] name = "arcompact_maj18" -> arcompact_maj18
    [] name = "arcompact_maj19" -> arcompact_maj19
    [] name = "arcompact_maj1C" -> arcompact_maj1C
    [] name = "arcompact_maj1D" -> arcompact_maj1D
    [] name = "arcompact_bcc16" -> arcompact_bcc16
    [] name = "arcompact_maj1E" -> arcompact_maj1E
    [] name = "arcompact_major" -> arcompact_major

\* table[idx]: a line of a table; lines past the initializers are zero-filled
Line(table, idx) ==
  IF idx < Len(table.rows) THEN table.rows[idx + 1] ELSE Z

\* F applied to the value of v, with v evaluated once
Let1(v, F(_)) == CHOOSE r \in {F(x) : x \in {v}} : TRUE

(***************************************************************************)
(* Operand constructors.  The context m handed to an operator is a value.  *)
(***************************************************************************)
\* get_limm() that reads the stream at every call
get_limm_refetch(m, s) ==
  [Advance(Advance(m)) EXCEPT
     !.g_limm = Int32(CurWord(m, s), CurWord(Advance(m), s)),
     !.got_limm = TRUE]

\* static int get_limm(): the context after the call; the value is its g_limm
get_limm(m, s) ==
  IF ~m.got_limm
  THEN [Advance(Advance(m)) EXCEPT
          !.g_limm = Int32(CurWord(m, s), CurWord(Advance(m), s)),
          !.got_limm = TRUE]
  ELSE m

\* opreg() without the test for a written first operand: r62 always fetches
opreg_always_fetch(m, s, k, rgnum) ==
  IF rgnum # LIMM
  THEN SetOp(m, k, [Op(m, k) EXCEPT !.reg = rgnum, !.type = "o_reg", !.dtyp = "dt_dword"])
  ELSE Let1(get_limm(m, s), LAMBDA m1 :
         SetOp(m1, k, [Op(m1, k) EXCEPT !.type = "o_imm", !.value = m1.g_limm,
                                        !.dtyp = "dt_dword"]))

\* opreg() without the test x.n == 0: r62 is zero in every slot of an opcode
\* that writes its first operand
opreg_zero_any_slot(m, s, k, rgnum) ==
  IF rgnum # LIMM
  THEN SetOp(m, k, [Op(m, k) EXCEPT !.reg = rgnum, !.type = "o_reg", !.dtyp = "dt_dword"])
  ELSE IF HasCF_CHG1(m.cmd.itype)
       THEN SetOp(m, k, [Op(m, k) EXCEPT !.type = "o_imm", !.value = 0, !.dtyp = "dt_dword"])
       ELSE Let1(get_limm(m, s), LAMBDA m1 :
              SetOp(m1, k, [Op(m1, k) EXCEPT !.type = "o_imm", !.value = m1.g_limm,
                                             !.dtyp = "dt_dword"]))

\* inline void opreg(op_t &x, int rgnum), x = cmd.Operands[k]
opreg(m, s, k, rgnum) ==
  IF rgnum # LIMM
  THEN SetOp(m, k, [Op(m, k) EXCEPT !.reg = rgnum, !.type = "o_reg", !.dtyp = "dt_dword"])
  ELSE IF k = 0 /\ HasCF_CHG1(m.cmd.itype)
       THEN SetOp(m, k, [Op(m, k) EXCEPT !.type = "o_imm", !.value = 0, !.dtyp = "dt_dword"])
       ELSE Let1(get_limm(m, s), LAMBDA m1 :
              SetOp(m1, k, [Op(m1, k) EXCEPT !.type = "o_imm", !.value = m1.g_limm,
                                             !.dtyp = "dt_dword"]))

\* inline void opimm(op_t &x, uval_t val)
opimm(m, k, val) ==
  SetOp(m, k, [Op(m, k) EXCEPT !.value = val, !.type = "o_imm", !.dtyp = "dt_dword"])

\* opdisp() that takes every register number, 62 included, as a register
opdisp_reg_only(m, s, k, rgnum, disp) ==
  SetOp(m, k, [Op(m, k) EXCEPT !.type = "o_displ", !.addr = disp, !.reg = rgnum,
                               !.dtyp = "dt_dword"])

\* inline void opdisp(op_t &x, int rgnum, ea_t disp)
opdisp(m, s, k, rgnum, disp) ==
  IF rgnum # LIMM
  THEN SetOp(m, k, [Op(m, k) EXCEPT !.type = "o_displ", !.addr = disp, !.reg = rgnum,
                                    !.dtyp = "dt_dword"])
  ELSE Let1(get_limm(m, s), LAMBDA m1 :
         SetOp(m1, k, [Op(m1, k) EXCEPT !.type = "o_mem", !.addr = m1.g_limm + disp,
                                        !.dtyp = "dt_dword"]))

\* reg16() that hands the 3-bit code on as the register number
reg16_identity(rgnum) == rgnum

\* inline int reg16(int rgnum)
reg16(rgnum) == IF rgnum > 3 THEN rgnum + 8 ELSE rgnum

\* opbranch() that adds delta to cmd.ip itself, not to cmd.ip & ~3
opbranch_unaligned(m, k, delta) ==
  SetOp(m, k, [Op(m, k) EXCEPT !.type = "o_near", !.dtyp = "dt_code",
                               !.addr = m.cmd.ip + delta])

\* inline void opbranch(op_t &x, sval_t delta)
opbranch(m, k, delta) ==
  LET pcl == m.cmd.ip - (m.cmd.ip % 4)
  IN  SetOp(m, k, [Op(m, k) EXCEPT !.type = "o_near", !.dtyp = "dt_code",
                                   !.addr = pcl + delta])

\* is_imm(reg): a reserved register code (61, 62, 63)
is_imm(r) == r >= SHIMM_F

\* the access width of an indirect operand, from cmd.auxpref & aux_zmask
IndirectDtyp(auxpref) ==
  LET z == BITS(auxpref, 2, 1) * 2
  IN  IF z = aux_b THEN "dt_byte" ELSE IF z = aux_w THEN "dt_word" ELSE "dt_dword"

\* void doIndirectOperand(int b, int c, op_t &op, int d, int li, bool special)
doIndirectOperand(m, k, b, c, d, li, special) ==
  LET op == Op(m, k)
  IN  SetOp(m, k, [(
        IF is_imm(b) /\ is_imm(c)
        THEN LET imm1 == IF b = LIMM THEN li ELSE d
                 imm2 == IF special THEN 0 ELSE IF c = LIMM THEN li ELSE d
             IN  [op EXCEPT !.type = "o_mem", !.addr = imm1 + imm2]
        ELSE IF ~is_imm(b) /\ ~is_imm(c)
        THEN [op EXCEPT !.type = "o_phrase", !.reg = b, !.secreg = c]
        ELSE IF is_imm(c)
        THEN [op EXCEPT !.type = "o_displ", !.reg = b,
                        !.addr = IF special THEN 0 ELSE IF c = LIMM THEN li ELSE d,
                        !.membase = 0]
        ELSE [op EXCEPT !.type = "o_displ", !.reg = c,
                        !.addr = IF b = LIMM THEN li ELSE d,
                        !.membase = 1]
      ) EXCEPT !.dtyp = IndirectDtyp(m.cmd.auxpref)])

(***************************************************************************)
(* decode_operand                                                          *)
(***************************************************************************)
\* the b register field with its two parts in the other order
FieldB32_swapped(code) == BITS(code, 26, 24) * 8 + BITS(code, 14, 12)

\* the b register field of a 32-bit instruction: 14..12 & 26..24
FieldB32(code) == BITS(code, 14, 12) * 8 + BITS(code, 26, 24)

\* S25L / S21L / S25 / S21: the displacement in halfwords
BranchDisp21_25(code, opkind) ==
  LET d0 == BITS(code, 15, 6) * 1024 + BITS(code, 26, 17)
      d1 == IF opkind = K("S25") \/ opkind = K("S25L")
            THEN LET w == d0 + BITS(code, 3, 0) * 1048576
                 IN  IF TestBit(w, 23) THEN w - 16777216 ELSE w
            ELSE IF TestBit(d0, 19) THEN d0 - 1048576 ELSE d0
  IN  IF opkind = K("S25L") \/ opkind = K("S21L")
      THEN d1 - (d1 % 2)          \* displ &= ~1ul
      ELSE d1

\* the switch of decode_operand (everything before the O_IND handling);
\* .m is the context, .ok is FALSE when the default case returned
decode_operand_switch(m, s, code, k, opkind) ==
  LET tag  == opkind.tag
      Done(mm) == [m |-> mm, ok |-> TRUE]
      p    == BITS(code, 23, 22)
  IN
  CASE tag = "fA16" -> Done(opreg(m, s, k, reg16(BITS(code, 2, 0))))
    [] tag = "fB16" -> Done(opreg(m, s, k, reg16(BITS(code, 10, 8))))
    [] tag = "fC16" -> Done(opreg(m, s, k, reg16(BITS(code, 7, 5))))
    [] tag = "fA32" -> Done(opreg(m, s, k, BITS(code, 5, 0)))
    [] tag = "fB32" -> Done(opreg(m, s, k, FieldB32(code)))
    [] tag = "fC32" -> Done(opreg(m, s, k, BITS(code, 11, 6)))
    [] tag = "fH16" -> Done(opreg(m, s, k, BITS(code, 2, 0) * 8 + BITS(code, 7, 5)))
    [] tag \in {"S25L", "S21L", "S25", "S21"} ->
         Done(opbranch(m, k, BranchDisp21_25(code, opkind) * 2))
    [] tag = "S9" ->
         LET displ == BITS(code, 23, 17) - (IF TestBit(code, 15) THEN 128 ELSE 0)
         IN  Done(opbranch(m, k, displ * 2))
    [] tag = "S7"  -> Done(opbranch(m, k, SBITS(code, 5, 0) * 2))
    [] tag = "S8"  -> Done(opbranch(m, k, SBITS(code, 6, 0) * 2))
    [] tag = "S10" -> Done(opbranch(m, k, SBITS(code, 8, 0) * 2))
    [] tag = "S13" -> Done(opbranch(m, k, SBITS(code, 10, 0) * 4))
    [] tag = "PCL_U10" -> Done(opdisp(m, s, k, PCL, BITS(code, 7, 0) * 4))
    [] tag = "SP_U7"   -> Done(opdisp(m, s, k, SP, BITS(code, 4, 0) * 4))
    [] tag = "U3" -> Done(opimm(m, k, BITS(code, 2, 0)))
    [] tag = "U7" -> Done(opimm(m, k, BITS(code, 6, 0)))
    [] tag = "U6" -> Done(opimm(m, k, BITS(code, 11, 6)))
    [] tag \in {"U5", "U7L"} ->
         Done(opimm(m, k, IF opkind = K("U7L") THEN BITS(code, 4, 0) * 4
                                               ELSE BITS(code, 4, 0)))
    [] tag = "U8" -> Done(opimm(m, k, BITS(code, 7, 0)))
    [] tag \in {"fB_U5", "fB_U6", "fB_U7"} ->
         LET d0 == BITS(code, 4, 0)
             displ == IF opkind = K("fB_U6") THEN d0 * 2
                      ELSE IF opkind = K("fB_U7") THEN d0 * 4 ELSE d0
         IN  Done(opdisp(m, s, k, reg16(BITS(code, 10, 8)), displ))
    [] tag = "fB_S9" ->
         LET displ == BITS(code, 23, 16) - (IF TestBit(code, 15) THEN 256 ELSE 0)
         IN  Done(opdisp(m, s, k, FieldB32(code), displ))
    [] tag = "GENA" ->
         Done(opreg(m, s, k, IF p <= 1 THEN BITS(code, 5, 0) ELSE FieldB32(code)))
    [] tag = "GENB" -> Done(opreg(m, s, k, FieldB32(code)))
    [] tag \in {"GENC", "GENC_PCREL"} ->
         LET reg == IF p # 2 THEN BITS(code, 11, 6)
                    ELSE SIGNEXT(BITS(code, 5, 0) * 64 + BITS(code, 11, 6), 12)
         IN  Let1(IF p # 2 /\ (p = 0 \/ (p = 3 /\ BITS(code, 5, 5) = 0))
                  THEN opreg(m, s, k, reg)
                  ELSE opimm(m, k, reg),
                  LAMBDA m1 :
                    IF tag = "GENC_PCREL" /\ Op(m1, k).type = "o_imm"
                    THEN Done(opbranch(m1, k, reg * 2))
                    ELSE Done(m1))
    [] tag = "fBC_IND" ->
         LET b  == FieldB32(code)
             c  == BITS(code, 11, 6)
         IN  Let1(IF b = LIMM \/ c = LIMM THEN get_limm(m, s) ELSE m,
                  LAMBDA m1 :
                    Done(doIndirectOperand(m1, k, b, c, 0,
                           IF b = LIMM \/ c = LIMM THEN m1.g_limm ELSE 0, FALSE)))
    [] tag = "fBC16_IND" ->
         Done(doIndirectOperand(m, k, reg16(BITS(code, 10, 8)), reg16(BITS(code, 7, 5)),
                                0, 0, FALSE))
    [] tag = "O_ZERO"  -> Done(opimm(m, k, 0))
    [] tag = "R_SP"    -> Done(opreg(m, s, k, SP))
    [] tag = "R_BLINK" -> Done(opreg(m, s, k, BLINK))
    [] tag = "R_R0"    -> Done(opreg(m, s, k, R0))
    [] tag = "R_GP"    -> Done(opreg(m, s, k, GP))
    [] tag \in {"GP_S9", "GP_S10", "GP_S11", "S11"} ->
         LET d0 == SBITS(code, 8, 0)
             displ == IF opkind = K("GP_S10") THEN d0 * 2
                      ELSE IF opkind # K("GP_S9") THEN d0 * 4 ELSE d0
         IN  IF opkind = K("S11") THEN Done(opimm(m, k, displ))
                                  ELSE Done(opdisp(m, s, k, GP, displ))
    [] OTHER ->
         [m |-> [m EXCEPT !.msgs = Append(@, <<"cannot decode operand", k, opkind>>)],
          ok |-> FALSE]

\* decode_operand() without the j/jl case of the O_IND tail
decode_operand_ind_always_mem(m, s, code, k, opkind) ==
  IF opkind = NoOp
  THEN SetOp(m, k, [Op(m, k) EXCEPT !.type = "o_void"])
  ELSE Let1(decode_operand_switch(m, s, code, k, opkind), LAMBDA r :
         LET x == Op(r.m, k)
         IN  IF ~r.ok \/ ~opkind.ind THEN r.m
             ELSE IF x.type = "o_reg"
             THEN SetOp(r.m, k, [x EXCEPT !.type = "o_displ", !.addr = 0])
             ELSE IF x.type = "o_imm"
             THEN SetOp(r.m, k, [x EXCEPT !.type = "o_mem", !.addr = x.value])
             ELSE r.m)

\* static void decode_operand(uint32 code, op_t &x, uint32 opkind), x = cmd.Operands[k]
decode_operand(m, s, code, k, opkind) ==
  IF opkind = NoOp
  THEN SetOp(m, k, [Op(m, k) EXCEPT !.type = "o_void"])
  ELSE Let1(decode_operand_switch(m, s, code, k, opkind), LAMBDA r :
         LET x == Op(r.m, k)
         IN  IF ~r.ok \/ ~opkind.ind THEN r.m
             ELSE IF x.type = "o_reg"
             THEN SetOp(r.m, k, [x EXCEPT !.type = "o_displ", !.addr = 0])
             ELSE IF x.type = "o_imm"
             THEN SetOp(r.m, k, [x EXCEPT
                    !.type = IF r.m.cmd.itype \in {"j", "jl"} THEN "o_near" ELSE "o_mem",
                    !.addr = x.value])
             ELSE r.m)

(***************************************************************************)
(* decode_aux                                                              *)
(***************************************************************************)
\* static void decode_aux(uint32 code, uint32 aux): the n-th if of the function
\* applied to a = [pref, aux]: cmd.auxpref and the part of the mask not
\* consumed yet
decode_aux_if(n, code, a) ==
  CASE n = 1 ->                                                   \* AUX_CND
         IF TestBit(a.aux, 8)
         THEN [pref |-> SetBits(a.pref, 4, 0, BITS(a.aux, 4, 0)),
               aux  |-> SetBits(SetBits(a.aux, 8, 8, 0), 4, 0, 0)]
         ELSE a
    [] n = 2 ->                                                   \* Q_4_0
         IF TestBit(a.aux, 2)
         THEN [pref |-> SetBits(a.pref, 4, 0, BITS(code, 4, 0)),
               aux  |-> SetBits(a.aux, 2, 2, 0)]
         ELSE a
    [] n = 3 ->                                                   \* AUX_GEN | AUX_GEN2
         IF TestBit(a.aux, 10) \/ TestBit(a.aux, 11)
         THEN LET f == IF ~TestBit(a.aux, 11) /\ BITS(code, 15, 15) # 0
                       THEN SetBits(a.pref, 8, 8, 1) ELSE a.pref
              IN  [pref |-> IF BITS(code, 23, 22) = 3
                            THEN SetBits(f, 4, 0, BITS(code, 4, 0)) ELSE f,
                   aux  |-> SetBits(a.aux, 11, 10, 0)]
         ELSE a
    [] n = 4 ->                                                   \* N_5
         IF TestBit(a.aux, 9)
         THEN [pref |-> SetBits(a.pref, 5, 5, BITS(code, 5, 5)),
               aux  |-> SetBits(a.aux, 9, 9, 0)]
         ELSE a
    [] n = 5 ->                                                   \* AUX_W
         IF TestBit(a.aux, 1)
         THEN [pref |-> SetBits(a.pref, 2, 1, aux_w \div 2),
               aux  |-> SetBits(a.aux, 1, 1, 0)]
         ELSE a
    [] n = 6 ->                                                   \* AUX_B
         IF TestBit(a.aux, 0)
         THEN [pref |-> SetBits(a.pref, 2, 1, aux_b \div 2),
               aux  |-> SetBits(a.aux, 0, 0, 0)]
         ELSE a
    [] n = 7 ->                                                   \* AUX_X
         IF TestBit(a.aux, 7)
         THEN [pref |-> SetBits(a.pref, 0, 0, 1),
               aux  |-> SetBits(a.aux, 7, 7, 0)]
         ELSE a
    [] n = 8 ->                                                   \* AUX_D
         IF TestBit(a.aux, 6)
         THEN [pref |-> SetBits(a.pref, 6, 5, aux_d \div 32),
               aux  |-> SetBits(a.aux, 6, 6, 0)]
         ELSE a
    [] n = 9 ->                                                   \* DAAZZX_11_6
         IF TestBit(a.aux, 4)
         THEN [pref |-> SetBits(a.pref, 5, 0, BITS(code, 11, 6)),
               aux  |-> SetBits(a.aux, 4, 4, 0)]
         ELSE a
    [] n = 10 ->                                                  \* DAAZZR_5_0
         IF TestBit(a.aux, 5)
         THEN [pref |-> SetBits(a.pref, 5, 0, BITS(code, 5, 0)),
               aux  |-> SetBits(a.aux, 5, 5, 0)]
         ELSE a
    [] OTHER ->                                                   \* AAZZXD_23_15
         IF TestBit(a.aux, 3)
         THEN [pref |-> SetBits(a.pref, 5, 0,
                           BITS(code, 15, 15) * 32 + BITS(code, 23, 22) * 8
                           + BITS(code, 18, 17) * 2 + BITS(code, 16, 16)),
               aux  |-> SetBits(a.aux, 3, 3, 0)]
         ELSE a

\* the ifs of decode_aux from the n-th on, in the order of the source
RECURSIVE decode_aux_steps(_, _, _)
decode_aux_steps(n, code, a) ==
  IF n > 11 THEN a
  ELSE Let1(decode_aux_if(n, code, a), LAMBDA a1 : decode_aux_steps(n + 1, code, a1))

\* decode_aux() that takes an AUX_GEN2 entry for an AUX_GEN entry
decode_aux_gen2_as_gen(m, code, aux) ==
  Let1(decode_aux_steps(1, code,
         [pref |-> m.cmd.auxpref,
          aux |-> IF TestBit(aux, 11) THEN SetBits(aux, 11, 10, 1) ELSE aux]), LAMBDA a :
    IF a.aux # 0
    THEN [m EXCEPT !.cmd.auxpref = a.pref,
                   !.msgs = Append(@, <<"unhandled aux bits", a.aux>>)]
    ELSE [m EXCEPT !.cmd.auxpref = a.pref])

\* static void decode_aux(uint32 code, uint32 aux)
decode_aux(m, code, aux) ==
  Let1(decode_aux_steps(1, code, [pref |-> m.cmd.auxpref, aux |-> aux]), LAMBDA a :
    IF a.aux # 0
    THEN [m EXCEPT !.cmd.auxpref = a.pref,
                   !.msgs = Append(@, <<"unhandled aux bits", a.aux>>)]
    ELSE [m EXCEPT !.cmd.auxpref = a.pref])

(***************************************************************************)
(* The table walk and the ARCompact decoder.                               *)
(***************************************************************************)
\* the index into the subtable with both bit ranges shifted by the width of
\* the first one plus one
SubtableIndex_wide_shift(code, line) ==
  BITS(code, line.high2, line.low2)
  + BITS(code, line.high1, line.low1) * 2^(line.high2 - line.low2 + 2)

\* the body of the while loop: the index into line->subtable, from one or
\* two bit ranges of code
SubtableIndex(code, line) ==
  LET idx0 == BITS(code, line.high2, line.low2)
  IN  IF line.high1 # 0 /\ line.low1 # 0
      THEN idx0 + BITS(code, line.high1, line.low1) * 2^(line.high2 - line.low2 + 1)
      ELSE idx0

\* the while loop of analyze_compact: the terminal line the walk ends at
RECURSIVE Walk(_, _)
Walk(code, line) ==
  IF line.hibit
  THEN Let1(Line(TableOf(line.subtable), SubtableIndex(code, line)),
            LAMBDA l : Walk(code, l))
  ELSE line

\* the hops of that loop: the subtable entered and the index into it, in order
RECURSIVE WalkHops(_, _)
WalkHops(code, line) ==
  IF line.hibit
  THEN Let1(SubtableIndex(code, line), LAMBDA idx :
         <<[table |-> line.subtable, idx |-> idx]>>
         \o WalkHops(code, Line(TableOf(line.subtable), idx)))
  ELSE <<>>

\* analyze_compact() that returns cmd.size for a line with zero mnemonic too
analyze_compact_size_on_zero(m, s, code, idx, table) ==
  Let1(Line(table, idx), LAMBDA l0 : Let1(Walk(code, l0), LAMBDA line :
    IF line.mnem = ""
    THEN [m |-> m, r |-> m.cmd.size]
    ELSE Let1([m EXCEPT !.cmd.itype = line.mnem],             LAMBDA m0 :
         Let1(decode_aux(m0, code, line.aux),                 LAMBDA m1 :
         Let1(decode_operand(m1, s, code, 0, line.ops[1]),    LAMBDA m2 :
         Let1(decode_operand(m2, s, code, 1, line.ops[2]),    LAMBDA m3 :
         Let1(decode_operand(m3, s, code, 2, line.ops[3]),    LAMBDA m4 :
           [m |-> m4, r |-> m4.cmd.size])))))))

\* static int analyze_compact(uint32 code, int idx, const arcompact_opcode_t *table):
\* .m the context afterwards, .r the value returned
analyze_compact(m, s, code, idx, table) ==
  Let1(Line(table, idx), LAMBDA l0 : Let1(Walk(code, l0), LAMBDA line :
    IF line.mnem = ""
    THEN [m |-> m, r |-> 0]
    ELSE Let1([m EXCEPT !.cmd.itype = line.mnem],             LAMBDA m0 :
         Let1(decode_aux(m0, code, line.aux),                 LAMBDA m1 :
         Let1(decode_operand(m1, s, code, 0, line.ops[1]),    LAMBDA m2 :
         Let1(decode_operand(m2, s, code, 1, line.ops[2]),    LAMBDA m3 :
         Let1(decode_operand(m3, s, code, 2, line.ops[3]),    LAMBDA m4 :
           [m |-> m4, r |-> m4.cmd.size])))))))

\* ana_compact() without got_limm = false
ana_compact_keep_limm(m, s) ==
  IF m.cmd.ea % 2 # 0
  THEN [m |-> m, r |-> 0]
  ELSE Let1(CurWord(m, s), LAMBDA w0 :
       Let1(Advance(m), LAMBDA m1 :
         IF BITS(w0, 15, 11) < 12
         THEN Let1(Advance(m1), LAMBDA m2 :
              Let1(w0 * 65536 + CurWord(m1, s), LAMBDA code :
                analyze_compact(m2, s, code, BITS(w0, 15, 11), arcompact_major)))
         ELSE analyze_compact(m1, s, w0, BITS(w0, 15, 11), arcompact_major)))

\* static int ana_compact(void)
ana_compact(m, s) ==
  IF m.cmd.ea % 2 # 0
  THEN [m |-> m, r |-> 0]
  ELSE Let1(CurWord(m, s), LAMBDA w0 :
       Let1([Advance(m) EXCEPT !.got_limm = FALSE], LAMBDA m1 :
         IF BITS(w0, 15, 11) < 12
         THEN Let1(Advance(m1), LAMBDA m2 :
              Let1(w0 * 65536 + CurWord(m1, s), LAMBDA code :
                analyze_compact(m2, s, code, BITS(w0, 15, 11), arcompact_major)))
         ELSE analyze_compact(m1, s, w0, BITS(w0, 15, 11), arcompact_major)))

(***************************************************************************)
(* The ARCtangent-A4 (fixed 32-bit) decoder.  A 32-bit instruction word is *)
(* kept as its two 16-bit halves [hi, lo].                                 *)
(***************************************************************************)
\* the long immediate left as fetched
Shl1_32_keep(x) == x

\* uint32 immediate; immediate <<= 1
Shl1_32(x) ==
  LET low31 == IF x >= 0 THEN x ELSE (x + 1073741824) + 1073741824
  IN  IF low31 < 1073741824 THEN 2 * low31
      ELSE (2 * (low31 - 1073741824) - 1073741824) - 1073741824

\* doRegisterOperand() that takes register code 62 for a short immediate
doRegisterOperand_limm_short(m, k, code, d, li, isbranch) ==
  LET op == [Op(m, k) EXCEPT !.dtyp = "dt_dword"]
  IN  IF code >= SHIMM_F
      THEN IF isbranch
           THEN SetOp(m, k, [op EXCEPT !.type = "o_near", !.addr = d * 4])
           ELSE SetOp(m, k, [op EXCEPT !.type = "o_imm", !.value = d])
      ELSE SetOp(m, k, [op EXCEPT !.type = "o_reg", !.reg = code])

\* void doRegisterOperand(int code, op_t &op, int d, int li, int isbranch)
doRegisterOperand(m, k, code, d, li, isbranch) ==
  LET op == [Op(m, k) EXCEPT !.dtyp = "dt_dword"]
  IN  IF code = SHIMM_F \/ code = SHIMM
      THEN IF isbranch
           THEN SetOp(m, k, [op EXCEPT !.type = "o_near", !.addr = d * 4])
           ELSE SetOp(m, k, [op EXCEPT !.type = "o_imm", !.value = d])
      ELSE IF code = LIMM
      THEN IF isbranch
           THEN SetOp(m, k, [op EXCEPT !.type = "o_near", !.addr = (li % 33554432) * 4,
                                       !.offb = 4])
           ELSE SetOp(m, k, [op EXCEPT !.type = "o_imm", !.value = li, !.offb = 4])
      ELSE SetOp(m, k, [op EXCEPT !.type = "o_reg", !.reg = code])

\* doBranchOperand() relative to the address of the branch itself
doBranchOperand_no_plus4(m, k, l) ==
  SetOp(m, k, [Op(m, k) EXCEPT !.dtyp = "dt_dword", !.type = "o_near",
                               !.addr = m.cmd.ip + l * 4, !.offb = 0])

\* void doBranchOperand(op_t &op, int l)
doBranchOperand(m, k, l) ==
  SetOp(m, k, [Op(m, k) EXCEPT !.dtyp = "dt_dword", !.type = "o_near",
                               !.addr = m.cmd.ip + l * 4 + 4, !.offb = 0])

\* the first switch of doRegisterInstruction: the opcode of major class i
\* ("" where the switch leaves cmd.itype alone, "return" for the early return)
RegisterItype(i, c, d, hi, lo) ==
  CASE i = 0 -> "ld"
    [] i = 1 -> IF TestBit(lo, 13) THEN "lr" ELSE "ld"
    [] i = 2 -> IF TestBit(hi, 9) THEN "sr" ELSE "st"
    [] i = 3 ->
         (CASE c = 0 -> "flag"
            [] c = 1 -> "asr"
            [] c = 2 -> "lsr"
            [] c = 3 -> "ror"
            [] c = 4 -> "rrc"
            [] c = 5 -> "sexb"
            [] c = 6 -> "sexw"
            [] c = 7 -> "extb"
            [] c = 8 -> "extw"
            [] c = 9 -> "swap"
            [] c = 10 -> "norm"
            [] c = 63 -> (CASE d = 0 -> "brk"
                            [] d = 1 -> "sleep"
                            [] d = 2 -> "swi"
                            [] OTHER -> "return")
            [] OTHER -> "")
    [] i = 7 -> IF TestBit(lo, 9) THEN "jl" ELSE "j"
    [] i = 8 -> "add"
    [] i = 9 -> "adc"
    [] i = 10 -> "sub"
    [] i = 11 -> "sbc"
    [] i = 12 -> "and"
    [] i = 13 -> "or"
    [] i = 14 -> "bic"
    [] i = 15 -> "xor"
    [] i = 16 -> "asl"
    [] i = 17 -> "lsr"
    [] i = 18 -> "asr"
    [] i = 19 -> "ror"
    [] i = 20 -> "mul64"
    [] i = 21 -> "mulu64"
    [] i = 30 -> "max"
    [] i = 31 -> "min"
    [] OTHER -> ""

\* the pseudo instruction heuristic without the case ARC_and
PseudoItype_no_and(itype, b, c) ==
  CASE itype = "or" /\ b = c -> "mov"
    [] itype = "add" /\ b = c -> IF b >= SHIMM_F THEN "mov" ELSE "lsl"
    [] itype = "adc" /\ b = c -> "rlc"
    [] OTHER -> itype

\* the pseudo instruction heuristic of doRegisterInstruction (the switch on
\* cmd.itype after the operand fields are known): the opcode it leaves
PseudoItype(itype, b, c) ==
  CASE itype \in {"and", "or"} /\ b = c -> "mov"
    [] itype = "add" /\ b = c -> IF b >= SHIMM_F THEN "mov" ELSE "lsl"
    [] itype = "adc" /\ b = c -> "rlc"
    [] OTHER -> itype

\* the nop test with the low half of the word only
IsNopWord_low_half(itype, hi, lo) == itype = "xor" /\ lo = 65535

\* case ARC_xor: if ( code == 0x7FFFFFFF ) isnop = 1;
IsNopWord(itype, hi, lo) == itype = "xor" /\ hi = 32767 /\ lo = 65535

\* void doRegisterInstruction(uint32 code), code = (hi << 16) | lo
doRegisterInstruction(m, s, hi, lo) ==
  LET i  == BITS(hi, 15, 11)
      a0 == BITS(hi, 10, 5)
      b0 == BITS(hi, 4, 0) * 2 + BITS(lo, 15, 15)
      c0 == BITS(lo, 14, 9)
      d0 == IF BITS(lo, 8, 0) >= 256 THEN BITS(lo, 8, 0) - 512 ELSE BITS(lo, 8, 0)
      it0 == RegisterItype(i, c0, d0, hi, lo)
      mA == [m EXCEPT !.cmd.auxpref = BITS(lo, 8, 0)]
  IN
  IF it0 = "return" THEN mA
  ELSE
  LET zop == i = 3 /\ c0 = 63
      \* a, b, c after the first switch
      a1 == IF i = 3 /\ c0 = 0 THEN b0 ELSE IF zop THEN -1 ELSE a0
      b1 == IF zop THEN -1 ELSE b0
      c1 == IF i = 3 THEN -1 ELSE c0
      fetch == b1 = LIMM \/ c1 = LIMM
      same == b1 = c1
  IN
  Let1([mA EXCEPT !.cmd.itype = IF it0 = "" THEN @ ELSE it0,
                  !.cmd.auxpref = IF b1 = SHIMM \/ c1 = SHIMM THEN 0
                                  ELSE IF a1 = SHIMM_F \/ b1 = SHIMM_F \/ c1 = SHIMM_F
                                  THEN aux_f
                                  ELSE IF zop THEN 0 ELSE @], LAMBDA mD :
  Let1(IF fetch THEN Int32(CurWord(mD, s), CurWord(Advance(mD), s)) ELSE 0, LAMBDA imm0 :
  LET it1 == mD.cmd.itype
      \* the pseudo instruction heuristic
      b2 == IF it1 = "flag" THEN -1 ELSE b1
      noop3 == it1 \in {"and", "or", "add", "adc"} /\ same
      it2 == PseudoItype(it1, b1, c1)
      dbl == it1 = "add" /\ same /\ b1 >= SHIMM_F
      d   == IF dbl THEN d0 * 2 ELSE d0
      immediate == IF dbl THEN Shl1_32(imm0) ELSE imm0
      isnop == IsNopWord(it1, hi, lo)
  IN
  Let1([(IF fetch THEN Advance(Advance(mD)) ELSE mD) EXCEPT !.cmd.itype = it2], LAMBDA mF :
  IF isnop
  THEN [mF EXCEPT !.cmd.itype = "nop", !.cmd.auxpref = 0]
  ELSE IF i = 0
  THEN Let1(doRegisterOperand(mF, 0, a1, d, immediate, FALSE), LAMBDA m1 :
         doIndirectOperand(m1, 1, b2, c1, d, immediate, FALSE))
  ELSE IF i = 1 \/ i = 2
  THEN Let1([mF EXCEPT !.cmd.auxpref =
                 IF it2 = "ld" THEN BITS(lo, 14, 9)
                 ELSE IF it2 = "st" THEN BITS(hi, 10, 5) ELSE 0], LAMBDA mG :
       Let1(doRegisterOperand(mG, 0, IF it2 \in {"st", "sr"} THEN c1 ELSE a1,
                              d, immediate, FALSE), LAMBDA m1 :
         doIndirectOperand(m1, 1, b2, SHIMM, d, immediate, it2 \in {"lr", "sr"})))
  ELSE IF i = 7
  THEN doRegisterOperand(mF, 0, b2, d, immediate, TRUE)
  ELSE Let1(IF a1 # -1 THEN doRegisterOperand(mF, 0, a1, 0, immediate, FALSE)
                       ELSE mF, LAMBDA m1 :
       Let1(IF b2 # -1 THEN doRegisterOperand(m1, 1, b2, d, immediate, FALSE)
                       ELSE m1, LAMBDA m2 :
         IF c1 # -1 /\ ~noop3
         THEN doRegisterOperand(m2, 2, c1, d, immediate, FALSE) ELSE m2)))))

\* void doBranchInstruction(uint32 code)
doBranchInstruction(m, hi, lo) ==
  LET i  == BITS(hi, 15, 11)
      l0 == BITS(hi, 10, 0) * 512 + BITS(lo, 15, 7)
      l  == IF l0 >= 524288 THEN l0 - 1048576 ELSE l0
  IN  [doBranchOperand(m, 0, l) EXCEPT !.cmd.itype = CASE i = 4 -> "b" [] i = 5 -> "bl" [] i = 6 -> "lp"
                                 [] OTHER -> @,
                 !.cmd.auxpref = BITS(lo, 8, 0)]

\* ana_old() with the alignment test of the compact decoder (cmd.ea & 1)
ana_old_align2(m, s) ==
  IF m.cmd.ea % 2 # 0
  THEN [m |-> m, r |-> 0]
  ELSE Let1([m EXCEPT !.cmd.Operands[1].dtyp = "dt_dword",
                      !.cmd.Operands[2].dtyp = "dt_dword",
                      !.cmd.Operands[3].dtyp = "dt_dword"],       LAMBDA m0 :
       Let1(CurWord(m0, s),                                       LAMBDA hi :
       Let1(CurWord(Advance(m0), s),                              LAMBDA lo :
       Let1([Advance(Advance(m0)) EXCEPT !.cmd.itype = ""],       LAMBDA m1 :
       Let1(IF BITS(hi, 15, 11) \in {4, 5, 6}
            THEN doBranchInstruction(m1, hi, lo)
            ELSE doRegisterInstruction(m1, s, hi, lo),            LAMBDA m2 :
         [m |-> m2, r |-> m2.cmd.size])))))

\* static int ana_old(void)
ana_old(m, s) ==
  IF m.cmd.ea % 4 # 0
  THEN [m |-> m, r |-> 0]
  ELSE Let1([m EXCEPT !.cmd.Operands[1].dtyp = "dt_dword",
                      !.cmd.Operands[2].dtyp = "dt_dword",
                      !.cmd.Operands[3].dtyp = "dt_dword"],       LAMBDA m0 :
       Let1(CurWord(m0, s),                                       LAMBDA hi :
       Let1(CurWord(Advance(m0), s),                              LAMBDA lo :
       Let1([Advance(Advance(m0)) EXCEPT !.cmd.itype = ""],       LAMBDA m1 :
       Let1(IF BITS(hi, 15, 11) \in {4, 5, 6}
            THEN doBranchInstruction(m1, hi, lo)
            ELSE doRegisterInstruction(m1, s, hi, lo),            LAMBDA m2 :
         [m |-> m2, r |-> m2.cmd.size])))))

(***************************************************************************)
(* The post-decode passes.                                                 *)
(***************************************************************************)
\* simplify() that takes a byte access in .as mode too (mul = 1)
simplify_scale_bytes(c) ==
  LET Op1 == c.Operands[1]
      Op2 == c.Operands[2]
      Op3 == c.Operands[3]
      z   == BITS(c.auxpref, 2, 1) * 2
  IN
  CASE c.itype \in {"st", "ld"} ->
         IF Op2.type = "o_displ" /\ BITS(c.auxpref, 4, 3) * 8 = aux_as /\ Op2.membase = 0
         THEN [c EXCEPT !.Operands[2].addr =
                            @ * (IF z = aux_w THEN 2 ELSE IF z = aux_l THEN 4 ELSE 1),
                        !.auxpref = SetBits(@, 4, 3, 0)]
         ELSE c
    [] c.itype \in {"add1", "add2", "add3", "sub1", "sub2", "sub3"} ->
         IF Op3.type = "o_imm"
         THEN [c EXCEPT !.Operands[3].value =
                            @ * (CASE c.itype \in {"add1", "sub1"} -> 2
                                   [] c.itype \in {"add2", "sub2"} -> 4
                                   [] c.itype \in {"add3", "sub3"} -> 8),
                        !.itype = IF c.itype \in {"add1", "add2", "add3"}
                                  THEN "add" ELSE "sub"]
         ELSE c
    [] c.itype = "sub" ->
         IF Op1.type = "o_imm" /\ Op1.value = 0 /\ TestBit(c.auxpref, 8)
         THEN [c EXCEPT !.auxpref = SetBits(@, 8, 8, 0),
                        !.itype = "cmp",
                        !.Operands[1] = Op2,
                        !.Operands[2] = Op3,
                        !.Operands[3].type = "o_void"]
         ELSE c
    [] OTHER -> c

\* simplify() that multiplies by 4 for add3 and sub3 as well
simplify_shift_two(c) ==
  LET Op1 == c.Operands[1]
      Op2 == c.Operands[2]
      Op3 == c.Operands[3]
      z   == BITS(c.auxpref, 2, 1) * 2
  IN
  CASE c.itype \in {"st", "ld"} ->
         IF Op2.type = "o_displ" /\ BITS(c.auxpref, 4, 3) * 8 = aux_as /\ Op2.membase = 0
         THEN IF z # aux_w /\ z # aux_l
              THEN c
              ELSE [c EXCEPT !.Operands[2].addr = @ * (IF z = aux_w THEN 2 ELSE 4),
                             !.auxpref = SetBits(@, 4, 3, 0)]
         ELSE c
    [] c.itype \in {"add1", "add2", "add3", "sub1", "sub2", "sub3"} ->
         IF Op3.type = "o_imm"
         THEN [c EXCEPT !.Operands[3].value =
                            @ * (CASE c.itype \in {"add1", "sub1"} -> 2
                                   [] OTHER -> 4),
                        !.itype = IF c.itype \in {"add1", "add2", "add3"}
                                  THEN "add" ELSE "sub"]
         ELSE c
    [] c.itype = "sub" ->
         IF Op1.type = "o_imm" /\ Op1.value = 0 /\ TestBit(c.auxpref, 8)
         THEN [c EXCEPT !.auxpref = SetBits(@, 8, 8, 0),
                        !.itype = "cmp",
                        !.Operands[1] = Op2,
                        !.Operands[2] = Op3,
                        !.Operands[3].type = "o_void"]
         ELSE c
    [] OTHER -> c

\* simplify() whose cmp keeps the .f bit of the sub
simplify_cmp_keeps_f(c) ==
  LET Op1 == c.Operands[1]
      Op2 == c.Operands[2]
      Op3 == c.Operands[3]
      z   == BITS(c.auxpref, 2, 1) * 2
  IN
  CASE c.itype \in {"st", "ld"} ->
         IF Op2.type = "o_displ" /\ BITS(c.auxpref, 4, 3) * 8 = aux_as /\ Op2.membase = 0
         THEN IF z # aux_w /\ z # aux_l
              THEN c
              ELSE [c EXCEPT !.Operands[2].addr = @ * (IF z = aux_w THEN 2 ELSE 4),
                             !.auxpref = SetBits(@, 4, 3, 0)]
         ELSE c
    [] c.itype \in {"add1", "add2", "add3", "sub1", "sub2", "sub3"} ->
         IF Op3.type = "o_imm"
         THEN [c EXCEPT !.Operands[3].value =
                            @ * (CASE c.itype \in {"add1", "sub1"} -> 2
                                   [] c.itype \in {"add2", "sub2"} -> 4
                                   [] c.itype \in {"add3", "sub3"} -> 8),
                        !.itype = IF c.itype \in {"add1", "add2", "add3"}
                                  THEN "add" ELSE "sub"]
         ELSE c
    [] c.itype = "sub" ->
         IF Op1.type = "o_imm" /\ Op1.value = 0 /\ TestBit(c.auxpref, 8)
         THEN [c EXCEPT !.itype = "cmp",
                        !.Operands[1] = Op2,
                        !.Operands[2] = Op3,
                        !.Operands[3].type = "o_void"]
         ELSE c
    [] OTHER -> c

\* static void simplify()
simplify(c) ==
  LET Op1 == c.Operands[1]
      Op2 == c.Operands[2]
      Op3 == c.Operands[3]
      z   == BITS(c.auxpref, 2, 1) * 2         \* cmd.auxpref & aux_zmask
  IN
  CASE c.itype \in {"st", "ld"} ->
         IF Op2.type = "o_displ" /\ BITS(c.auxpref, 4, 3) * 8 = aux_as /\ Op2.membase = 0
         THEN IF z # aux_w /\ z # aux_l
              THEN c
              ELSE [c EXCEPT !.Operands[2].addr = @ * (IF z = aux_w THEN 2 ELSE 4),
                             !.auxpref = SetBits(@, 4, 3, 0)]
         ELSE c
    [] c.itype \in {"add1", "add2", "add3", "sub1", "sub2", "sub3"} ->
         IF Op3.type = "o_imm"
         THEN [c EXCEPT !.Operands[3].value =
                            @ * (CASE c.itype \in {"add1", "sub1"} -> 2
                                   [] c.itype \in {"add2", "sub2"} -> 4
                                   [] c.itype \in {"add3", "sub3"} -> 8),
                        !.itype = IF c.itype \in {"add1", "add2", "add3"}
                                  THEN "add" ELSE "sub"]
         ELSE c
    [] c.itype = "sub" ->
         IF Op1.type = "o_imm" /\ Op1.value = 0 /\ TestBit(c.auxpref, 8)
         THEN [c EXCEPT !.auxpref = SetBits(@, 8, 8, 0),
                        !.itype = "cmp",
                        !.Operands[1] = Op2,
                        !.Operands[2] = Op3,
                        !.Operands[3].type = "o_void"]
         ELSE c
    [] OTHER -> c

\* inline void fix_ldst()
fix_ldst(c) ==
  IF c.itype \in {"ld", "st"}
  THEN LET z == BITS(c.auxpref, 2, 1) * 2
       IN  IF z = aux_b THEN [c EXCEPT !.Operands[2].dtyp = "dt_byte"]
           ELSE IF z = aux_w THEN [c EXCEPT !.Operands[2].dtyp = "dt_word"]
           ELSE c
  ELSE c

\* the condition of inline_const() without the test of cmd.auxpref
InlineAsks_any_mode(c) ==
  /\ c.itype = "ld"
  /\ c.Operands[2].type = "o_displ"
  /\ c.Operands[2].reg = PCL

\* the condition under which inline_const() asks the host isEnabled(val_ea)
InlineAsks(c) ==
  /\ c.itype = "ld"
  /\ c.Operands[2].type = "o_displ"
  /\ c.Operands[2].reg = PCL
  /\ BITS(c.auxpref, 3, 1) = 0          \* (auxpref & (aux_a|aux_zmask)) == 0

\* static void inline_const(); en is the host's answer to isEnabled(val_ea)
inline_const(c, en) ==
  IF InlineAsks(c)
  THEN LET val_ea == (c.ea - (c.ea % 4)) + c.Operands[2].addr
       IN  IF en
           THEN [c EXCEPT !.Operands[2].type = "o_mem",
                          !.Operands[2].addr = val_ea,
                          !.auxpref = SetBits(@, 9, 9, 1)]
           ELSE c
  ELSE c

\* ana() with inline_const() ahead of simplify()
ana_inline_first(m, s, en) ==
  Let1(IF is_a4 THEN ana_old(m, s) ELSE ana_compact(m, s),                  LAMBDA d :
  Let1(IF d.r # 0 THEN fix_ldst(d.m.cmd) ELSE d.m.cmd,                       LAMBDA c1 :
  Let1(IF d.r # 0 /\ "ARC_INLINECONST" \in idpflags
       THEN inline_const(c1, en) ELSE c1,                                    LAMBDA c2 :
  Let1(IF d.r # 0 /\ "ARC_SIMPLIFY" \in idpflags THEN simplify(c2) ELSE c2,  LAMBDA c3 :
    [m |-> [d.m EXCEPT !.cmd = c3], sz |-> d.r, raw |-> c1,
     asked |-> d.r # 0 /\ "ARC_INLINECONST" \in idpflags /\ InlineAsks(c1),
     r |-> c3.size]))))

\* int idaapi ana(void): .m the context afterwards, .sz the local sz, .raw cmd
\* after fix_ldst(), .asked whether isEnabled() was called, .r the value returned
ana(m, s, en) ==
  Let1(IF is_a4 THEN ana_old(m, s) ELSE ana_compact(m, s),                  LAMBDA d :
  Let1(IF d.r # 0 THEN fix_ldst(d.m.cmd) ELSE d.m.cmd,                       LAMBDA c1 :
  Let1(IF d.r # 0 /\ "ARC_SIMPLIFY" \in idpflags THEN simplify(c1) ELSE c1,  LAMBDA c2 :
  Let1(IF d.r # 0 /\ "ARC_INLINECONST" \in idpflags
       THEN inline_const(c2, en) ELSE c2,                                    LAMBDA c3 :
    [m |-> [d.m EXCEPT !.cmd = c3], sz |-> d.r, raw |-> c1,
     asked |-> d.r # 0 /\ "ARC_INLINECONST" \in idpflags /\ InlineAsks(c2),
     r |-> c3.size]))))

(***************************************************************************)
(* The inputs: addresses and stream contents.                              *)
(***************************************************************************)
EaSet == 0 .. MaxEa

\* the two 16-bit halves of the long immediates that follow an instruction
LimmWords == {<<0, 5>>, <<65535, 65534>>}

\* a 32-bit ARCompact word of the general format, from its fields
Gen32(maj, b, p, subop, F, c, a) ==
  maj * 134217728 + (b % 8) * 16777216 + p * 4194304 + subop * 65536
  + F * 32768 + (b \div 8) * 4096 + c * 64 + a

\* the stream that holds the 32-bit word code followed by the two halves of
\* l and by what comes after them
Stream32(code, l) == <<code \div 65536, code % 65536, l[1], l[2], 4369, 8738>>

\* the stream that holds the 16-bit word w followed by the two halves of l
\* and by what comes after them
Stream16(w, l) == <<w, l[1], l[2], 4369, 8738>>

\* general format: add, mov, sub1, an unassigned line, j, ld [b,c]
SampleGeneral ==
  {Gen32(4, b, p, subop, F, c, a) :
     b \in {1, 62}, p \in 0 .. 3, subop \in {0, 10, 23, 30, 32, 48},
     F \in {0, 1}, c \in {2, 62}, a \in {3, 62}}

\* b/bl/brcc, ld/st with a 9-bit offset, an extension op, unassigned majors
SampleOther ==
  {Gen32(maj, b, 0, subop, 0, c, a) :
     maj \in {0, 1, 2, 3, 5, 6}, b \in {1, 62}, subop \in {0, 1},
     c \in {2, 62}, a \in {3, 62}}

SampleCodes32 == SampleGeneral \cup SampleOther

SampleWords16 ==
  {maj * 2048 + b * 256 + c * 32 + i :
     maj \in 12 .. 31, b \in {1, 7}, c \in {0, 6}, i \in {0, 7, 15, 31}}

CompactStreams ==
  {Stream32(code, l) : code \in SampleCodes32, l \in LimmWords}
  \cup {Stream16(w, l) : w \in SampleWords16, l \in LimmWords}

\* legacy words from the fields i, a, b, c, d; and the nop encoding
LegacyStreams ==
  {<<i * 2048 + a * 32 + (b \div 2), (b % 2) * 32768 + c * 512 + d, l[1], l[2]>> :
     i \in {0, 1, 2, 3, 4, 7, 8, 12}, a \in {1, 62}, b \in {2, 62}, c \in {0, 2, 62},
     d \in {0, 3}, l \in LimmWords}
  \cup {<<32767, 65535, 0, 5>>}

(***************************************************************************)
(* The state machine.                                                      *)
(***************************************************************************)
\* the processor module is loaded: the mode is one of modes, the flags one
\* of flagsets, no instruction has been analysed
InitIn(modes, flagsets) ==
  /\ pc = "idle"
  /\ is_a4 \in modes
  /\ idpflags \in flagsets
  /\ stream = <<>>
  /\ readable = "na"
  /\ cmd = FreshCmd(0)
  /\ got_limm = FALSE
  /\ g_limm = 0
  /\ msgs = <<>>
  /\ entry = [got_limm |-> FALSE, g_limm |-> 0]
  /\ raw = FreshCmd(0)
  /\ sz = 0
  /\ ret = 0

AllFlags == SUBSET {"ARC_SIMPLIFY", "ARC_INLINECONST"}

Init == InitIn(BOOLEAN, AllFlags)

\* the kernel positions a zero-filled cmd at address a of a stream holding s
\* and calls ana(); en is what isEnabled() answers if it is asked
Decode(a, s, en) ==
  /\ pc = "idle"
  /\ \E r \in {ana(Ctx(FreshCmd(a), got_limm, g_limm), s, en)} :
         /\ (~r.asked => ~en)
         /\ cmd' = r.m.cmd
         /\ got_limm' = r.m.got_limm
         /\ g_limm' = r.m.g_limm
         /\ msgs' = r.m.msgs
         /\ readable' = IF r.asked THEN (IF en THEN "yes" ELSE "no") ELSE "na"
         /\ raw' = r.raw
         /\ sz' = r.sz
         /\ ret' = r.r
  /\ stream' = s
  /\ entry' = [got_limm |-> got_limm, g_limm |-> g_limm]
  /\ pc' = "done"
  /\ UNCHANGED <<is_a4, idpflags>>

\* the caller has taken the result; the globals of the analyser stay
NextInsn ==
  /\ pc = "done"
  /\ pc' = "idle"
  /\ cmd' = FreshCmd(0)
  /\ raw' = FreshCmd(0)
  /\ stream' = <<>>
  /\ readable' = "na"
  /\ msgs' = <<>>
  /\ sz' = 0
  /\ ret' = 0
  /\ entry' = [got_limm |-> got_limm, g_limm |-> g_limm]
  /\ UNCHANGED <<is_a4, idpflags, got_limm, g_limm>>

DecodeAny ==
  /\ pc = "idle"
  /\ \E a \in EaSet, en \in BOOLEAN :
       \E s \in (IF is_a4 THEN LegacyStreams ELSE CompactStreams) : Decode(a, s, en)

Next == DecodeAny \/ NextInsn

Spec == Init /\ [][Next]_vars

(***************************************************************************)
(* Every 16-bit ARCompact instruction word (major opcode >= 0xC).          *)
(***************************************************************************)
ShortWords == {w \in 0 .. 65535 : BITS(w, 15, 11) >= 12}

InitShort == InitIn({FALSE}, AllFlags)

DecodeShort ==
  /\ pc = "idle"
  /\ \E w \in ShortWords, en \in BOOLEAN : Decode(0, Stream16(w, <<0, 5>>), en)

SpecShort == InitShort /\ [][DecodeShort]_vars

(***************************************************************************)
(* The branch instructions of the compact encoding.                        *)
(***************************************************************************)
\* a 32-bit word of major 0 (b) or 1 (bl, brcc) from bits 26..17, bit 16,
\* bits 15..6 and bits 5..0
Br32(maj, lo10, sel, hi10, low6) ==
  maj * 134217728 + lo10 * 131072 + sel * 65536 + hi10 * 64 + low6

BranchCodes32 ==
  {Br32(maj, lo10, sel, hi10, low6) :
     maj \in {0, 1}, lo10 \in {0, 1, 2, 3, 127, 128, 1022, 1023}, sel \in {0, 1},
     hi10 \in {0, 1, 511, 512, 1023}, low6 \in {0, 1, 7, 8, 15}}

\* every 16-bit word of the majors 0x1D (brcc_s), 0x1E (b_s) and 0x1F (bl_s)
BranchWords16 == {w \in 0 .. 65535 : BITS(w, 15, 11) >= 29}

BranchStreams ==
  {Stream32(code, <<0, 5>>) : code \in BranchCodes32}
  \cup {Stream16(w, <<0, 5>>) : w \in BranchWords16}

InitBranch == InitIn({FALSE}, AllFlags)

DecodeBranch ==
  /\ pc = "idle"
  /\ \E a \in EaSet, en \in BOOLEAN : \E s \in BranchStreams : Decode(a, s, en)

SpecBranch == InitBranch /\ [][DecodeBranch]_vars

(***************************************************************************)
(* The general format with mode bits 23..22 = 10 (a signed 12-bit          *)
(* immediate): every value of the twelve bits 11..0.                       *)
(***************************************************************************)
\* add, mov, j, lp, flag, lr with b = r1
GencCodes ==
  {Gen32(4, 1, 2, subop, 0, c, a) :
     subop \in {0, 10, 32, 40, 41, 42}, c \in 0 .. 63, a \in 0 .. 63}

InitGenc == InitIn({FALSE}, AllFlags)

DecodeGenc ==
  /\ pc = "idle"
  /\ \E code \in GencCodes, en \in BOOLEAN : Decode(0, Stream32(code, <<0, 5>>), en)

SpecGenc == InitGenc /\ [][DecodeGenc]_vars

(***************************************************************************)
(* The legacy (ARCtangent-A4) encoding: every major class, the register    *)
(* fields over a plain register and the three reserved codes, and every    *)
(* sub-opcode of the single operand class.                                 *)
(***************************************************************************)
\* the two 16-bit halves of the legacy word with the fields i (31..27),
\* a (26..21), b (20..15), c (14..9) and d (8..0)
LegacyWord(i, a, b, c, d) ==
  <<i * 2048 + a * 32 + (b \div 2), (b % 2) * 32768 + c * 512 + d>>

LegacyWords ==
  {LegacyWord(i, a, b, c, d) :
     i \in 0 .. 31, a \in {1, 61, 62, 63}, b \in {2, 61, 62, 63},
     c \in {0, 2, 61, 62, 63}, d \in {0, 3, 511}}
  \cup {LegacyWord(3, a, b, c, d) :
          a \in {1, 62}, b \in {2, 62}, c \in 0 .. 63, d \in {0, 1, 2, 3, 511}}

InitLegacy == InitIn({TRUE}, AllFlags)

DecodeLegacy ==
  /\ pc = "idle"
  /\ \E w \in LegacyWords, l \in LimmWords, en \in BOOLEAN :
       Decode(0, <<w[1], w[2], l[1], l[2]>>, en)

SpecLegacy == InitLegacy /\ [][DecodeLegacy]_vars

(***************************************************************************)
(* The table walk: every 16-bit word, and for the 32-bit words every value *)
(* of the bits that index a table (the major opcode; bits 16, 17, 4 and    *)
(* 3..0 under majors 0 and 1; bits 21..16, 5..0 and 14..12 & 26..24 under  *)
(* majors 4 and 5).                                                        *)
(***************************************************************************)
WalkCodes32 ==
  {Gen32(maj, 1, 0, 0, 0, 2, 3) : maj \in 0 .. 11}
  \cup {Br32(maj, lo10, sel, 0, low6) :
          maj \in {0, 1}, lo10 \in {0, 1}, sel \in {0, 1}, low6 \in 0 .. 31}
  \cup {Gen32(maj, 1, 0, subop, 0, 2, 3) : maj \in {4, 5}, subop \in 0 .. 63}
  \cup {Gen32(maj, 1, 0, 47, 0, 2, a) : maj \in {4, 5}, a \in 0 .. 63}
  \cup {Gen32(maj, b, 0, 47, 0, 2, 63) : maj \in {4, 5}, b \in 0 .. 63}

WalkStreams ==
  {Stream32(code, <<0, 5>>) : code \in WalkCodes32}
  \cup {Stream16(w, <<0, 5>>) : w \in ShortWords}

InitWalk == InitIn({FALSE}, AllFlags)

DecodeWalk ==
  /\ pc = "idle"
  /\ \E s \in WalkStreams, en \in BOOLEAN : Decode(0, s, en)

SpecWalk == InitWalk /\ [][DecodeWalk]_vars

(***************************************************************************)
(* Loads, stores and the instructions simplify() rewrites, in both modes.  *)
(***************************************************************************)
\* ld a,[b,s9] with every value of the flag bits 11..6; st c,[b,s9] with
\* every value of the flag bits 5..0; ld a,[b,c]; sub, add1..3, sub1..3 with
\* a register, a long immediate, an unsigned 6-bit or a signed 12-bit
\* immediate as the last operand
PassCodes32 ==
  {Gen32(2, b, 0, off, 0, fl, 3) : b \in {1, 62, 63}, off \in {0, 4}, fl \in 0 .. 63}
  \cup {Gen32(3, b, 0, off, 0, 2, fl) : b \in {1, 63}, off \in {0, 4}, fl \in 0 .. 63}
  \cup {Gen32(4, b, p, subop, 0, c, 3) :
          b \in {1, 63}, p \in 0 .. 3, subop \in 48 .. 55, c \in {2, 62}}
  \cup {Gen32(4, 1, p, subop, F, c, a) :
          p \in {0, 1, 2}, subop \in {2, 20, 21, 22, 23, 24, 25}, F \in {0, 1},
          c \in {2, 62}, a \in {3, 62}}

\* legacy ld a,[b,c], ld a,[b,d] / lr, st c,[b,d] / sr; ld a,[b,c] with bits
\* 4..3 of the word set and every value of bits 2..1; sub a,b,c with a
\* register and the three immediate codes as destination
PassLegacyWords ==
  {LegacyWord(i, a, b, c, d) :
     i \in {0, 1, 2}, a \in {1, 17}, b \in {2, 62, 63}, c \in {0, 1, 2, 4, 8, 16, 62},
     d \in {0, 2, 4, 6}}
  \cup {LegacyWord(0, 1, b, c, d) :
          b \in {2, 62}, c \in {2, 62}, d \in {24, 26, 28, 30}}
  \cup {LegacyWord(10, a, b, c, d) :
          a \in {1, 61, 62, 63}, b \in {2, 62}, c \in {3, 63}, d \in {0, 3, 256}}

PassStreams(legacy) ==
  IF legacy
  THEN {<<w[1], w[2], 0, 5>> : w \in PassLegacyWords}
  ELSE {Stream32(code, <<0, 5>>) : code \in PassCodes32}
       \cup {Stream16(w, <<0, 5>>) : w \in SampleWords16}

\* an address that is a multiple of 4 and one that is not
PassEas == {0, 6}

DecodePasses ==
  /\ pc = "idle"
  /\ \E en \in BOOLEAN, a \in PassEas : \E s \in PassStreams(is_a4) : Decode(a, s, en)

SpecPasses == Init /\ [][DecodePasses]_vars

(***************************************************************************)
(* The general format of majors 4 and 5 in its four modes.                 *)
(***************************************************************************)
\* every line of arcompact_maj4/5 and of their single operand subtables in
\* every mode; add, mov, j, flag, lr with every value of bits 11..6; add,
\* cmp, lp, flag with every value of bits 5..0
GenCodes ==
  {Gen32(maj, 1, p, subop, F, 2, a) :
     maj \in {4, 5}, p \in 0 .. 3, subop \in 0 .. 63, F \in {0, 1}, a \in {0, 31, 35}}
  \cup {Gen32(maj, 1, p, 47, F, 2, a) :
          maj \in {4, 5}, p \in 0 .. 3, F \in {0, 1}, a \in 0 .. 63}
  \cup {Gen32(4, b, p, subop, 0, c, a) :
          b \in {1, 62}, p \in 0 .. 3, subop \in {0, 10, 32, 41, 42},
          c \in 0 .. 63, a \in {3, 35, 62}}
  \cup {Gen32(4, 1, p, subop, F, 2, a) :
          p \in 0 .. 3, subop \in {0, 12, 40, 41}, F \in {0, 1}, a \in 0 .. 63}

InitGen == InitIn({FALSE}, AllFlags)

DecodeGen ==
  /\ pc = "idle"
  /\ \E code \in GenCodes, en \in BOOLEAN : Decode(0, Stream32(code, <<0, 5>>), en)

SpecGen == InitGen /\ [][DecodeGen]_vars

(***************************************************************************)
(* The legacy branches b, bl, lp at several addresses.                     *)
(***************************************************************************)
\* the word of class i with bits 26..16 = top and bits 15..0 = low
LegacyBranchWord(i, top, low) == <<i * 2048 + top, low>>

\* both signs of the displacement, its extreme values, every value of the
\* two bits 8..7 that the displacement shares with the attributes
LegacyBranchWords ==
  {LegacyBranchWord(i, top, x * 128 + y) :
     i \in {4, 5, 6},
     top \in {0, 1, 2, 1023, 1024, 1025, 2046, 2047},
     x \in {0, 1, 2, 3, 255, 256, 510, 511},
     y \in {0, 1, 64, 127}}

LegacyBranchEas == {0, 2, 4, 4096}

InitLegacyBranch == InitIn({TRUE}, AllFlags)

DecodeLegacyBranch ==
  /\ pc = "idle"
  /\ \E w \in LegacyBranchWords, a \in LegacyBranchEas, en \in BOOLEAN :
       Decode(a, <<w[1], w[2], 0, 5>>, en)

SpecLegacyBranch == InitLegacyBranch /\ [][DecodeLegacyBranch]_vars

(***************************************************************************)
(* Properties.  What a finished call shows: cmd (the result), raw (cmd as  *)
(* the decoder left it, before simplify and inline_const), sz (the local   *)
(* of ana), ret (the value ana returned), entry (the globals at the call). *)
(***************************************************************************)
\* the instruction word of a compact stream: 32 bits below major opcode 0xC
InsnCode(s) ==
  IF BITS(s[1], 15, 11) < 12 THEN s[1] * 65536 + s[2] ELSE s[1]

\* the number of bytes of the instruction word itself
InsnLen(s) == IF BITS(s[1], 15, 11) < 12 THEN 4 ELSE 2

\* the terminal table line that the bits of the instruction word select
TerminalLine(s) ==
  Walk(InsnCode(s), Line(arcompact_major, BITS(s[1], 15, 11)))

\* a finished call of the compact decoder at a 16-bit aligned address
CompactCall == pc = "done" /\ ~is_a4 /\ cmd.ea % 2 = 0

\* C1: a call at an address that violates the alignment of the encoding
\* (4 bytes legacy, 2 bytes compact) returns 0 and reads nothing: the cursor
\* cmd.size stays 0 and the long immediate globals are as at the call
C1_Misaligned == pc = "done" /\ cmd.ea % (IF is_a4 THEN 4 ELSE 2) # 0

C1_MisalignedReturnsZero ==
  C1_Misaligned =>
    /\ ret = 0
    /\ cmd.size = 0
    /\ got_limm = entry.got_limm
    /\ g_limm = entry.g_limm
    /\ cmd.itype = ""

\* a legacy call at address 2 (aligned for the compact encoding only)
C1_Witness == C1_Misaligned /\ is_a4 /\ cmd.ea = 2 /\ ret = 0

\* C2: in compact mode an aligned word whose table walk ends at a line with
\* zero mnemonic makes ana() return 0, with zero bytes consumed
C2_UnassignedReturnsZero ==
  (CompactCall /\ TerminalLine(stream).mnem = "") => (ret = 0 /\ cmd.size = 0)

\* a finished compact call that decoded a 16-bit instruction (major >= 0xC)
C3_ShortDecoded == CompactCall /\ sz # 0 /\ BITS(stream[1], 15, 11) >= 12

\* the h field (2..0 & 7..5) of a 16-bit word
C3_FieldH(w) == BITS(w, 2, 0) * 8 + BITS(w, 7, 5)

\* add_s b,b,h / mov_s b,h / cmp_s b,h (major 0x0E, sub-opcode 0..2) whose
\* source h is register code 62
C3_SourceH62(w) ==
  BITS(w, 15, 11) = 14 /\ BITS(w, 4, 3) \in {0, 1, 2} /\ C3_FieldH(w) = LIMM

\* C3 as stated: every decoded 16-bit instruction consumes exactly 2 bytes
C3_ShortAlwaysTwoBytes == C3_ShortDecoded => ret = 2

\* C3 amended: a decoded 16-bit instruction consumes 2 bytes, except that the
\* major 0x0E forms with source h = 62 consume 6 (the word and a long
\* immediate); mov_s h,b with h = 62 writes its first operand and stays at 2
C3_ShortTwoOrSixBytes ==
  C3_ShortDecoded =>
    /\ ret = (IF C3_SourceH62(stream[1]) THEN 6 ELSE 2)
    /\ cmd.size = ret

\* cmp_s b,h with h = 62 has taken the long immediate
C3_Witness ==
  /\ C3_ShortDecoded
  /\ C3_SourceH62(stream[1])
  /\ cmd.itype = "cmp"
  /\ ret = 6
  /\ raw.Operands[2].type = "o_imm"
  /\ raw.Operands[2].value = 5

(***************************************************************************)
(* Operand slots of an instruction and the long immediate sentinel.        *)
(***************************************************************************)
\* the b field of a 32-bit word: bits 14..12 above bits 26..24
FieldB(code) == ((code \div 4096) % 8) * 8 + ((code \div 16777216) % 8)

\* the register number that the operand description o designates in code,
\* -1 where the field of o is not read as a register number
RegisterField(o, code) ==
  LET p == (code \div 4194304) % 4
  IN  CASE o.tag = "fA32" -> code % 64
        [] o.tag \in {"fB32", "GENB", "fB_S9"} -> FieldB(code)
        [] o.tag = "fC32" -> (code \div 64) % 64
        [] o.tag = "fH16" -> (code % 8) * 8 + ((code \div 32) % 8)
        [] o.tag = "GENA" -> IF p <= 1 THEN code % 64 ELSE FieldB(code)
        [] o.tag \in {"GENC", "GENC_PCREL"} ->
             IF p = 0 \/ (p = 3 /\ (code \div 32) % 2 = 0)
             THEN (code \div 64) % 64 ELSE -1
        [] OTHER -> -1

\* slot k (0..2) of the line holds the sentinel: its register field, or one
\* of the two register fields of [b, c], is 62
SentinelSlot(line, code, k) ==
  LET o == line.ops[k + 1]
  IN  IF o.tag = "fBC_IND"
      THEN FieldB(code) = LIMM \/ (code \div 64) % 64 = LIMM
      ELSE RegisterField(o, code) = LIMM

\* slot k is the first operand of an instruction that writes its first
\* operand, given as a plain register field
WrittenDestination(line, k) ==
  /\ k = 0
  /\ line.ops[1].tag \notin {"fB_S9", "fBC_IND"}
  /\ HasCF_CHG1(line.mnem)

\* a finished compact call that decoded a 32-bit instruction (major < 0xC)
LongDecoded == CompactCall /\ sz # 0 /\ BITS(stream[1], 15, 11) < 12

\* C4 as stated: a decoded 32-bit instruction consumes 4 bytes when no
\* operand field holds the sentinel and 8 bytes when at least one does
C4_EightIffAnySentinel ==
  LongDecoded =>
    ret = (IF \E k \in 0 .. 2 : SentinelSlot(TerminalLine(stream), InsnCode(stream), k)
           THEN 8 ELSE 4)

\* C4 amended: a decoded 32-bit instruction consumes 8 bytes when a slot
\* other than a written destination in slot 0 holds the sentinel, and 4
\* bytes otherwise (a written destination 62 decodes to immediate 0 without
\* a fetch)
C4_EightIffSourceSentinel ==
  LongDecoded =>
    /\ ret = (IF \E k \in 0 .. 2 :
                   /\ SentinelSlot(TerminalLine(stream), InsnCode(stream), k)
                   /\ ~WrittenDestination(TerminalLine(stream), k)
              THEN 8 ELSE 4)
    /\ cmd.size = ret

\* add 62, r1, r2: the destination is the sentinel, nothing is fetched
C4_Witness ==
  /\ LongDecoded
  /\ raw.itype = "add"
  /\ SentinelSlot(TerminalLine(stream), InsnCode(stream), 0)
  /\ raw.Operands[1].type = "o_imm"
  /\ raw.Operands[1].value = 0
  /\ raw.Operands[2].type = "o_reg"
  /\ raw.Operands[3].type = "o_reg"
  /\ ret = 4

\* the long immediate that follows the instruction word in the stream
FollowingLimm(s) ==
  IF BITS(s[1], 15, 11) < 12 THEN Int32(s[3], s[4]) ELSE Int32(s[2], s[3])

\* what an operand carries: the address of a memory or code reference, the
\* value of anything else
OperandValue(op) ==
  IF op.type \in {"o_mem", "o_displ", "o_near"} THEN op.addr ELSE op.value

\* the 9-bit signed offset of [b, s9]: bit 15 is the sign, bits 23..16 the rest
FieldS9(code) ==
  ((code \div 65536) % 256) - (IF (code \div 32768) % 2 = 1 THEN 256 ELSE 0)

\* the operand op decoded from the sentinel slot k carries the long immediate
\* L: as its value, or as (the base of) its address
CarriesLimm(line, code, k, op, L) ==
  LET o == line.ops[k + 1]
      b62 == FieldB(code) = LIMM
      c62 == (code \div 64) % 64 = LIMM
  IN  CASE o.tag = "fBC_IND" ->
             IF b62 /\ c62 THEN op.type = "o_mem" /\ op.addr = L + L
             ELSE op.type = "o_displ" /\ op.addr = L
        [] o.tag = "fB_S9" -> op.type = "o_mem" /\ op.addr = L + FieldS9(code)
        [] o.tag = "GENC_PCREL" -> op.type = "o_near" /\ op.value = L
        [] OTHER ->
             /\ op.value = L
             /\ IF o.ind THEN op.type \in {"o_near", "o_mem"} /\ op.addr = L
                         ELSE op.type = "o_imm"

\* a decoded 32-bit instruction two of whose slots hold the sentinel
C5_TwoSentinels ==
  /\ LongDecoded
  /\ \E j, k \in 0 .. 2 :
       /\ j < k
       /\ SentinelSlot(TerminalLine(stream), InsnCode(stream), j)
       /\ SentinelSlot(TerminalLine(stream), InsnCode(stream), k)

\* C5 as stated: when two slots hold the sentinel, the two operands carry
\* identical values and exactly one 32-bit read follows the instruction word
C5_SentinelsIdentical ==
  LongDecoded =>
    \A j, k \in 0 .. 2 :
      (/\ j < k
       /\ SentinelSlot(TerminalLine(stream), InsnCode(stream), j)
       /\ SentinelSlot(TerminalLine(stream), InsnCode(stream), k))
      => /\ OperandValue(raw.Operands[j + 1]) = OperandValue(raw.Operands[k + 1])
         /\ cmd.size = 8

\* C5 amended: when two slots hold the sentinel, exactly one 32-bit read
\* follows the instruction word, every sentinel slot other than a written
\* destination in slot 0 carries that one long immediate (as its value, or as
\* the base of its address), and a written destination carries immediate 0
C5_SentinelsShareOneRead ==
  C5_TwoSentinels =>
    /\ cmd.size = 8
    /\ got_limm /\ g_limm = FollowingLimm(stream)
    /\ \A k \in 0 .. 2 :
         SentinelSlot(TerminalLine(stream), InsnCode(stream), k) =>
           IF WrittenDestination(TerminalLine(stream), k)
           THEN raw.Operands[k + 1].type = "o_imm" /\ raw.Operands[k + 1].value = 0
           ELSE CarriesLimm(TerminalLine(stream), InsnCode(stream), k,
                            raw.Operands[k + 1], FollowingLimm(stream))

\* add r3, limm, limm: both sources are the one long immediate 0xFFFFFFFE
C5_Witness ==
  /\ C5_TwoSentinels
  /\ raw.itype = "add"
  /\ raw.Operands[1].type = "o_reg"
  /\ raw.Operands[2].type = "o_imm" /\ raw.Operands[2].value = -2
  /\ raw.Operands[3].type = "o_imm" /\ raw.Operands[3].value = -2
  /\ cmd.size = 8

\* C6: over any sequence of compact calls, a long immediate that a call puts
\* into an operand is the 32-bit word that follows that call's instruction
\* and is read by that call: the cache is set at the end of a call exactly
\* when the call read the word, it then holds that word, and every operand
\* decoded from a fetching sentinel slot carries it, whatever an earlier call
\* left in the cache
C6_LimmIsThisCallsWord ==
  CompactCall =>
    /\ cmd.size \in {InsnLen(stream), InsnLen(stream) + 4}
    /\ got_limm = (cmd.size = InsnLen(stream) + 4)
    /\ got_limm => g_limm = FollowingLimm(stream)
    /\ \A k \in 0 .. 2 :
         (/\ sz # 0
          /\ SentinelSlot(TerminalLine(stream), InsnCode(stream), k)
          /\ ~WrittenDestination(TerminalLine(stream), k))
         => /\ got_limm
            /\ CarriesLimm(TerminalLine(stream), InsnCode(stream), k,
                           raw.Operands[k + 1], FollowingLimm(stream))

\* a call that found 5 cached by an earlier call and decoded a sentinel
\* operand to the 0xFFFFFFFE that follows its own instruction
C6_Witness ==
  /\ CompactCall
  /\ entry.got_limm /\ entry.g_limm = 5
  /\ sz # 0
  /\ SentinelSlot(TerminalLine(stream), InsnCode(stream), 1)
  /\ raw.Operands[2].type = "o_imm"
  /\ raw.Operands[2].value = -2
  /\ g_limm = -2

\* C7: simplify() is idempotent on every instruction the decoder produces:
\* applied twice it gives the opcode, operands and attributes it gives when
\* applied once
C7_SimplifyIdempotent ==
  (pc = "done" /\ sz # 0) => simplify(simplify(raw)) = simplify(raw)

\* a finished legacy call at an aligned address whose word is of the ALU AND
\* class (major class 12) with equal source fields b (bits 20..15) and c
\* (bits 14..9)
C9_AndEqualSources ==
  /\ pc = "done" /\ is_a4 /\ cmd.ea % 4 = 0
  /\ stream[1] \div 2048 = 12
  /\ (stream[1] % 32) * 2 + (stream[2] \div 32768) = (stream[2] \div 512) % 64

\* C9 as stated: such a word decodes to mov without the duplicate source when
\* the simplify flag is on, and to and with three operands when it is off
C9_AndFoldsOnlyWhenSimplify ==
  C9_AndEqualSources =>
    IF "ARC_SIMPLIFY" \in idpflags
    THEN cmd.itype = "mov" /\ cmd.Operands[3].type = "o_void"
    ELSE /\ cmd.itype = "and"
         /\ \A k \in 1 .. 3 : cmd.Operands[k].type # "o_void"

\* C9 amended: such a word decodes to mov with the destination and one
\* source, the duplicate source dropped, whether the simplify flag is on or
\* off (the legacy decoder folds pseudo instructions itself)
C9_AndAlwaysFolds ==
  C9_AndEqualSources =>
    /\ cmd.itype = "mov"
    /\ cmd.Operands[1].type # "o_void"
    /\ cmd.Operands[2].type # "o_void"
    /\ cmd.Operands[3].type = "o_void"

\* and r1, r2, r2 decoded to mov r1, r2 with the simplify flag off
C9_Witness ==
  /\ C9_AndEqualSources
  /\ "ARC_SIMPLIFY" \notin idpflags
  /\ cmd.itype = "mov"
  /\ cmd.Operands[1].type = "o_reg" /\ cmd.Operands[1].reg = 1
  /\ cmd.Operands[2].type = "o_reg" /\ cmd.Operands[2].reg = 2
  /\ cmd.Operands[3].type = "o_void"
  /\ ret = 4

(***************************************************************************)
(* Branch targets.  Addresses are kept as integers: the decoder's ea_t     *)
(* arithmetic is the same sum modulo the width of ea_t.                    *)
(***************************************************************************)
BranchTags == {"S7", "S8", "S9", "S10", "S13", "S21", "S25", "S21L", "S25L"}

\* the n-bit field value v read as a two's complement number
SignedField(v, n) == IF v >= 2^(n - 1) THEN v - 2^n ELSE v

\* the sign-extended displacement field of a branch tag: S7 5..0, S8 6..0,
\* S10 8..0, S13 10..0, S9 15 & 23..17, S21 15..6 & 26..17, S25 3..0 & 15..6
\* & 26..17; the -L tags with the low bit forced to zero
BranchField(tag, code) ==
  LET s21 == ((code \div 64) % 1024) * 1024 + ((code \div 131072) % 1024)
      d == CASE tag = "S7" -> SignedField(code % 64, 6)
             [] tag = "S8" -> SignedField(code % 128, 7)
             [] tag = "S10" -> SignedField(code % 512, 9)
             [] tag = "S13" -> SignedField(code % 2048, 11)
             [] tag = "S9" -> SignedField(((code \div 32768) % 2) * 128
                                          + ((code \div 131072) % 128), 8)
             [] tag \in {"S21", "S21L"} -> SignedField(s21, 20)
             [] tag \in {"S25", "S25L"} -> SignedField((code % 16) * 1048576 + s21, 24)
  IN  IF tag \in {"S21L", "S25L"} THEN d - (d % 2) ELSE d

\* every branch operand of the finished call is the code address of the
\* instruction address with its two low bits cleared plus the displacement
\* field times 4 for the tags in by4 and times 2 for the others
BranchTargetsScaled(by4) ==
  (CompactCall /\ sz # 0) =>
    \A k \in 0 .. 2 :
      LET tag == TerminalLine(stream).ops[k + 1].tag
      IN  tag \in BranchTags =>
            /\ raw.Operands[k + 1].type = "o_near"
            /\ raw.Operands[k + 1].addr =
                 (cmd.ea - (cmd.ea % 4))
                 + BranchField(tag, InsnCode(stream)) * (IF tag \in by4 THEN 4 ELSE 2)

\* C8 as stated: the scale is 4 for S13, S21L and S25L and 2 for the rest
C8_ScaleFourForLinkTags == BranchTargetsScaled({"S13", "S21L", "S25L"})

\* C8 amended: the scale is 4 for S13 only; S21L and S25L, like S7, S8, S9,
\* S10, S21 and S25, scale by 2 (their low displacement bit forced to zero
\* first, which makes the target 4-byte aligned)
C8_ScaleFourForS13Only == BranchTargetsScaled({"S13"})

\* bl at address 2 with the displacement field 2: the target is 0 + 2 * 2
C8_Witness ==
  /\ CompactCall /\ sz # 0
  /\ cmd.ea = 2
  /\ raw.itype = "bl"
  /\ TerminalLine(stream).ops[1].tag = "S21L"
  /\ BranchField("S21L", InsnCode(stream)) = 2
  /\ raw.Operands[1].type = "o_near"
  /\ raw.Operands[1].addr = 4

(***************************************************************************)
(* The signed 12-bit immediate of the general format.  Operand values are  *)
(* kept as signed integers (the decoder stores them in an uval_t).         *)
(***************************************************************************)
\* a decoded 32-bit instruction with mode bits 23..22 = 10
C10_ModeS12 == LongDecoded /\ (InsnCode(stream) \div 4194304) % 4 = 2

\* (bits 5..0 << 6) | bits 11..6 read as a 12-bit two's complement number
FieldS12(code) == SignedField((code % 64) * 64 + ((code \div 64) % 64), 12)

\* C10 as stated: with mode bits 10 every GENC operand is an immediate whose
\* value is the signed 12-bit field, and neither a register nor the long
\* immediate is read
C10_GencIsImmediate ==
  C10_ModeS12 =>
    /\ cmd.size = 4 /\ ~got_limm
    /\ \A k \in 1 .. 3 :
         TerminalLine(stream).ops[k].tag = "GENC" =>
           /\ raw.Operands[k].type = "o_imm"
           /\ raw.Operands[k].value = FieldS12(InsnCode(stream))

\* C10 amended: with mode bits 10 every GENC operand gets the signed 12-bit
\* field as its value and neither a register nor the long immediate is read;
\* the operand is an immediate unless the table marks it indirect (O_IND),
\* where it is the code address (j, jl) or memory address (lr, sr, ...) equal
\* to that value; a GENC_PCREL operand (lp) is the branch target
\* (address & ~3) + 2 * value
C10_GencValueIsS12 ==
  C10_ModeS12 =>
    /\ cmd.size = 4 /\ ~got_limm
    /\ \A k \in 1 .. 3 :
         LET o == TerminalLine(stream).ops[k]
             x == raw.Operands[k]
             v == FieldS12(InsnCode(stream))
         IN  /\ (o.tag = "GENC" /\ ~o.ind) => (x.type = "o_imm" /\ x.value = v)
             /\ (o.tag = "GENC" /\ o.ind) =>
                  /\ x.value = v /\ x.addr = v
                  /\ x.type = (IF raw.itype \in {"j", "jl"} THEN "o_near" ELSE "o_mem")
             /\ o.tag = "GENC_PCREL" =>
                  /\ x.value = v
                  /\ x.type = "o_near"
                  /\ x.addr = (cmd.ea - (cmd.ea % 4)) + 2 * v

\* mov r1, -2048: the twelve bits 100000 000000 (bits 5..0, then 11..6)
C10_Witness ==
  /\ C10_ModeS12
  /\ raw.itype = "mov"
  /\ InsnCode(stream) % 4096 = 32
  /\ raw.Operands[2].type = "o_imm"
  /\ raw.Operands[2].value = -2048

(***************************************************************************)
(* The 16-bit move mov_s b,h (major 0x0E, sub-opcode 1).                   *)
(***************************************************************************)
\* the register number that the 3-bit code c stands for
CompactReg(c) == <<0, 1, 2, 3, 12, 13, 14, 15>>[c + 1]

\* a finished compact call on a word of major 0x0E with bits 4..3 = 1
C11_MovBH ==
  CompactCall /\ BITS(stream[1], 15, 11) = 14 /\ BITS(stream[1], 4, 3) = 1

\* the decoded instruction is mov with the first operand the register of the
\* 3-bit b field, no third operand and no auxiliary attribute
C11_MovShape ==
  /\ cmd.itype = "mov"
  /\ cmd.auxpref = 0
  /\ cmd.Operands[1].type = "o_reg"
  /\ cmd.Operands[1].reg = CompactReg(BITS(stream[1], 10, 8))
  /\ cmd.Operands[3].type = "o_void"

\* C11 as stated: the word decodes to a 2-byte mov whose first operand is the
\* register reg16(bits 10..8) and whose second operand is the register h,
\* with no auxiliary attribute and no third operand
C11_MovIsTwoByteRegReg ==
  C11_MovBH =>
    /\ ret = 2
    /\ C11_MovShape
    /\ cmd.Operands[2].type = "o_reg"
    /\ cmd.Operands[2].reg = C3_FieldH(stream[1])

\* C11 amended: the same for every h other than 62; with h = 62 the second
\* operand is the long immediate that follows the word and the instruction
\* is 6 bytes long
C11_MovRegOrLimm ==
  C11_MovBH =>
    /\ C11_MovShape
    /\ IF C3_FieldH(stream[1]) = LIMM
       THEN /\ ret = 6
            /\ cmd.Operands[2].type = "o_imm"
            /\ cmd.Operands[2].value = FollowingLimm(stream)
       ELSE /\ ret = 2
            /\ cmd.Operands[2].type = "o_reg"
            /\ cmd.Operands[2].reg = C3_FieldH(stream[1])

\* mov r2, r2 from the word 0x7248
C11_Witness ==
  /\ C11_MovBH
  /\ stream[1] = 29256
  /\ ret = 2
  /\ cmd.itype = "mov"
  /\ cmd.Operands[1].type = "o_reg" /\ cmd.Operands[1].reg = 2
  /\ cmd.Operands[2].type = "o_reg" /\ cmd.Operands[2].reg = 2

(***************************************************************************)
(* The legacy encoding: its fields and the single operand class.           *)
(***************************************************************************)
\* a finished legacy call at a 4-byte aligned address
LegacyCall == pc = "done" /\ is_a4 /\ cmd.ea % 4 = 0

\* the fields of the legacy word in the stream
LegacyI(s) == s[1] \div 2048
LegacyA(s) == (s[1] \div 32) % 64
LegacyB(s) == (s[1] % 32) * 2 + (s[2] \div 32768)
LegacyC(s) == (s[2] \div 512) % 64
LegacyD(s) == s[2] % 512

\* a word of class 3 without a defined meaning: sub-opcode 0x3F with a short
\* immediate other than 0, 1, 2, or a sub-opcode that is neither 0 .. 10
\* nor 0x3F
C12_Undefined(s) ==
  /\ LegacyI(s) = 3
  /\ \/ LegacyC(s) = 63 /\ LegacyD(s) \notin {0, 1, 2}
     \/ LegacyC(s) \in 11 .. 62

\* C12: in legacy mode a class 3 word without a defined meaning makes the
\* decode fail: ana_old and ana return zero and no opcode is reported
C12_UndefinedSingleOperandFails ==
  (LegacyCall /\ C12_Undefined(stream)) => (sz = 0 /\ ret = 0 /\ cmd.itype = "")

(***************************************************************************)
(* The legacy encoding: register code 62 and the long immediate.           *)
(***************************************************************************)
\* a finished legacy call on a word of the register format (every class but
\* the branches 4, 5, 6)
C13_RegisterFormat == LegacyCall /\ LegacyI(stream) \notin {4, 5, 6}

\* the legacy decoder drops the third operand: and/or/add/adc with b = c
C13_Folded(s) == LegacyI(s) \in {8, 9, 12, 13} /\ LegacyB(s) = LegacyC(s)

\* the register fields that are decoded into operand slot k (0 .. 2)
C13_SlotFields(s, k) ==
  LET i == LegacyI(s)
      a == LegacyA(s)
      b == LegacyB(s)
      c == LegacyC(s)
  IN  CASE s[1] = 32767 /\ s[2] = 65535 -> {}
        [] i = 0 -> <<{a}, {b, c}, {}>>[k + 1]
        [] i = 1 -> <<{a}, {b}, {}>>[k + 1]
        [] i = 2 -> <<{c}, {b}, {}>>[k + 1]
        [] i = 3 /\ c = 0 -> <<{b}, {}, {}>>[k + 1]
        [] i = 3 /\ c = 63 -> {}
        [] i = 3 -> <<{a}, {b}, {}>>[k + 1]
        [] i = 7 -> <<{b}, {}, {}>>[k + 1]
        [] OTHER -> <<{a}, {b}, IF C13_Folded(s) THEN {} ELSE {c}>>[k + 1]

\* the 32-bit word that follows the legacy instruction word
C13_NextWord(s) == Int32(s[3], s[4])

C13_SourceIs62(s) ==
  \/ LegacyC(s) = LIMM /\ LegacyI(s) # 3
  \/ LegacyB(s) = LIMM /\ ~(LegacyI(s) = 3 /\ LegacyC(s) = 63)

\* the fetched word L as operand slot k carries it
C13_Carries(s, k, op, L) ==
  LET i == LegacyI(s)
      b == LegacyB(s)
      c == LegacyC(s)
      d == IF LegacyD(s) >= 256 THEN LegacyD(s) - 512 ELSE LegacyD(s)
  IN  CASE i = 7 -> op.type = "o_near" /\ op.addr = (L % 33554432) * 4
        [] i = 0 /\ k = 1 ->
             IF b = LIMM /\ c = LIMM THEN op.type = "o_mem" /\ op.addr = L + L
             ELSE IF b >= SHIMM_F /\ c >= SHIMM_F
             THEN op.type = "o_mem" /\ op.addr = L + d
             ELSE op.type = "o_displ" /\ op.addr = L
        [] i \in {1, 2} /\ k = 1 ->
             /\ op.type = "o_mem"
             /\ op.addr \in {L, L + d}
        [] i = 8 /\ b = LIMM /\ c = LIMM -> op.type = "o_imm" /\ op.value = L + L
        [] OTHER -> op.type = "o_imm" /\ op.value = L

C14_Hops ==
  WalkHops(InsnCode(stream), Line(arcompact_major, BITS(stream[1], 15, 11)))

\* C14: for every instruction word the table walk ends after at most 3
\* subtable hops from the root table, and every index it computes is
\* strictly less than the declared size of the table it indexes: the major
\* opcode in the root table, and the bit range index in every subtable
C14_WalkBoundedAndInRange ==
  CompactCall =>
    /\ BITS(stream[1], 15, 11) < arcompact_major.size
    /\ Len(C14_Hops) <= 3
    /\ \A h \in 1 .. Len(C14_Hops) :
         C14_Hops[h].idx < TableOf(C14_Hops[h].table).size

\* a walk of three hops that ends at the last line of arcompact_zop, through
\* the two bit ranges 14..12 and 26..24
C14_Witness ==
  /\ CompactCall
  /\ Len(C14_Hops) = 3
  /\ C14_Hops[1] = [table |-> "arcompact_maj4", idx |-> 47]
  /\ C14_Hops[2] = [table |-> "arcompact_sop", idx |-> 63]
  /\ C14_Hops[3] = [table |-> "arcompact_zop", idx |-> 63]

(***************************************************************************)
(* The passes of ana() after the decoder.                                  *)
(***************************************************************************)
\* cmd as the decoder of the mode leaves it when called as the finished
\* call called it: at cmd.ea, on the stream, with the globals of the entry
DecoderResult ==
  (IF is_a4
   THEN ana_old(Ctx(FreshCmd(cmd.ea), entry.got_limm, entry.g_limm), stream)
   ELSE ana_compact(Ctx(FreshCmd(cmd.ea), entry.got_limm, entry.g_limm), stream)).m.cmd

\* c with the second operand of ld/st set to byte or halfword width where
\* the access width attribute of c says so
C15_WidthFixed(c) ==
  IF c.itype \in {"ld", "st"} /\ BITS(c.auxpref, 2, 1) \in {1, 2}
  THEN [c EXCEPT !.Operands[2].dtyp =
                     IF BITS(c.auxpref, 2, 1) = 1 THEN "dt_byte" ELSE "dt_word"]
  ELSE c

\* C15: the result of every call is the decoder's result passed through the
\* access width fix, then through simplify() if ARC_SIMPLIFY is set, then
\* through inline_const() if ARC_INLINECONST is set; with both flags off it
\* is the decoder's result with the width of the second operand of ld/st
\* fixed; the host is asked whether the constant is readable exactly when
\* inline_const() meets a pc-relative load in what simplify() left
C15_FixThenSimplifyThenInline ==
  pc = "done" =>
    LET c1 == C15_WidthFixed(DecoderResult)
        c2 == IF "ARC_SIMPLIFY" \in idpflags THEN simplify(c1) ELSE c1
        c3 == IF "ARC_INLINECONST" \in idpflags
              THEN inline_const(c2, readable = "yes") ELSE c2
    IN  /\ raw = c1
        /\ cmd = c3
        /\ idpflags = {} => cmd = c1
        /\ (readable # "na") =
             (sz # 0 /\ "ARC_INLINECONST" \in idpflags /\ InlineAsks(c2))

\* ld.as r3, [pcl, 4] with both flags set: the offset is scaled by simplify()
\* first, and inline_const() then takes the operand for the constant at 16
C15_Witness ==
  /\ CompactCall /\ sz # 0
  /\ idpflags = {"ARC_SIMPLIFY", "ARC_INLINECONST"}
  /\ raw.itype = "ld"
  /\ raw.Operands[2].type = "o_displ" /\ raw.Operands[2].reg = PCL
  /\ raw.Operands[2].addr = 4
  /\ BITS(raw.auxpref, 4, 3) = 3
  /\ cmd.Operands[2].type = "o_mem" /\ cmd.Operands[2].addr = 16
  /\ BITS(cmd.auxpref, 9, 9) = 1

\* C16: when the table walk of a compact call ends at a line with zero
\* mnemonic, the opcode, the three operands and the auxiliary attributes are
\* as the caller handed them over, the decoder reports 0 to ana(), and none
\* of fix_ldst(), simplify(), inline_const() runs: cmd is as the decoder
\* left it, and the host is not asked about any address
C16_FailedDecodeLeavesCmd ==
  (CompactCall /\ TerminalLine(stream).mnem = "") =>
    /\ sz = 0
    /\ cmd.itype = FreshCmd(cmd.ea).itype
    /\ cmd.Operands = FreshCmd(cmd.ea).Operands
    /\ cmd.auxpref = FreshCmd(cmd.ea).auxpref
    /\ raw = cmd /\ cmd = DecoderResult
    /\ readable = "na"
    /\ msgs = <<>>

\* a 32-bit word of the unassigned major 8, with both passes switched on
C16_Witness ==
  /\ CompactCall
  /\ BITS(stream[1], 15, 11) = 8
  /\ TerminalLine(stream).mnem = ""
  /\ idpflags = {"ARC_SIMPLIFY", "ARC_INLINECONST"}
  /\ sz = 0
  /\ cmd.itype = ""

(***************************************************************************)
(* Register operands of the compact encoding that hold the sentinel.       *)
(***************************************************************************)
\* the operand tags whose field is a register number handed to opreg()
C17_RegisterTags == {"fA32", "fB32", "fC32", "fH16", "GENA", "GENB", "GENC", "GENC_PCREL"}

\* slot k of the line is a register operand whose field in code is 62
C17_Register62(line, code, k) ==
  /\ line.ops[k + 1].tag \in C17_RegisterTags
  /\ RegisterField(line.ops[k + 1], code) = LIMM

\* C17: a register operand of a compact instruction that holds 62 decodes to
\* the immediate 0, with no stream read issued for it, when it is slot 0 of
\* an opcode that writes its first operand (the instruction is longer than
\* its word only if a later slot holds 62 too); in every other slot, and in
\* slot 0 of an opcode that does not write its first operand, its value is
\* the long immediate fetched after the instruction word
C17_WrittenSlotZeroSkipsFetch ==
  (CompactCall /\ sz # 0) =>
    \A k \in 0 .. 2 :
      C17_Register62(TerminalLine(stream), InsnCode(stream), k) =>
        IF k = 0 /\ TerminalLine(stream).mnem \in CF_CHG1_insns
        THEN /\ raw.Operands[1].type = "o_imm"
             /\ raw.Operands[1].value = 0
             /\ got_limm =
                  \E j \in 1 .. 2 : SentinelSlot(TerminalLine(stream), InsnCode(stream), j)
             /\ cmd.size = InsnLen(stream) + (IF got_limm THEN 4 ELSE 0)
        ELSE /\ raw.Operands[k + 1].value = FollowingLimm(stream)
             /\ got_limm /\ g_limm = FollowingLimm(stream)
             /\ cmd.size = InsnLen(stream) + 4

\* mov_s h, b with h = 62 (slot 0, written): immediate 0 and 2 bytes
C17_Witness ==
  /\ CompactCall /\ sz # 0
  /\ InsnLen(stream) = 2
  /\ TerminalLine(stream).ops[1].tag = "fH16"
  /\ C17_Register62(TerminalLine(stream), InsnCode(stream), 0)
  /\ raw.itype = "mov"
  /\ raw.Operands[1].type = "o_imm" /\ raw.Operands[1].value = 0
  /\ ~got_limm
  /\ ret = 2

(***************************************************************************)
(* The 3-bit register fields of the 16-bit instructions.                   *)
(***************************************************************************)
\* C18: the 3-bit register code of fA16 (bits 2..0), fB16 (10..8), fC16
\* (7..5), fB_U5/U6/U7 (10..8) and fBC16_IND (10..8 and 7..5) stands for
\* r0..r3 (codes 0..3) and r12..r15 (codes 4..7): the operand is that
\* register, or the memory operand based on it, and it is never the long
\* immediate
C18_CompactRegisterMapping ==
  C3_ShortDecoded =>
    \A k \in 1 .. 3 :
      LET o == TerminalLine(stream).ops[k]
          x == raw.Operands[k]
          w == stream[1]
      IN  /\ o.tag \in {"fA16", "fB16", "fC16"} =>
               /\ x.type = (IF o.ind THEN "o_displ" ELSE "o_reg")
               /\ x.reg = CompactReg(CASE o.tag = "fA16" -> BITS(w, 2, 0)
                                       [] o.tag = "fB16" -> BITS(w, 10, 8)
                                       [] o.tag = "fC16" -> BITS(w, 7, 5))
          /\ o.tag \in {"fB_U5", "fB_U6", "fB_U7"} =>
               /\ x.type = "o_displ"
               /\ x.reg = CompactReg(BITS(w, 10, 8))
          /\ o.tag = "fBC16_IND" =>
               /\ x.type = "o_phrase"
               /\ x.reg = CompactReg(BITS(w, 10, 8))
               /\ x.secreg = CompactReg(BITS(w, 7, 5))
          /\ o.tag \in {"fA16", "fB16", "fC16", "fB_U5", "fB_U6", "fB_U7", "fBC16_IND"} =>
               /\ x.reg # LIMM /\ x.secreg # LIMM
               /\ x.reg \in (0 .. 3) \cup (12 .. 15)

\* ld_s a, [b, c] with b = code 4 and c = code 7: the operand [r12, r15]
C18_Witness ==
  /\ C3_ShortDecoded
  /\ TerminalLine(stream).ops[2].tag = "fBC16_IND"
  /\ BITS(stream[1], 10, 8) = 4 /\ BITS(stream[1], 7, 5) = 7
  /\ raw.Operands[2].type = "o_phrase"
  /\ raw.Operands[2].reg = 12 /\ raw.Operands[2].secreg = 15

(***************************************************************************)
(* The general format: operand roles by the mode bits 23..22.              *)
(***************************************************************************)
\* the operand x is decoded from the register field f: the register f (the
\* base of a zero displacement where the table marks the operand indirect),
\* or, for code 62, a long immediate operand
C19_AsRegister(x, f, ind) ==
  IF f # LIMM
  THEN x.reg = f /\ x.type = (IF ind THEN "o_displ" ELSE "o_reg")
  ELSE x.type \in {"o_imm", "o_near", "o_mem"}

\* the operand x is the immediate v (the address v where the table marks the
\* operand indirect)
C19_AsImmediate(x, v, ind) ==
  /\ x.value = v
  /\ IF ind THEN x.type \in {"o_near", "o_mem"} /\ x.addr = v ELSE x.type = "o_imm"

\* C19: the role of a GENC operand follows the mode bits 23..22 and bit 5:
\* 00 the register in bits 11..6, 01 the unsigned 6-bit immediate in bits
\* 11..6, 11 the register (bit 5 = 0) or that immediate (bit 5 = 1); a GENA
\* operand is the register in bits 5..0 in modes 00/01 and the b register
\* (14..12 & 26..24) in modes 10/11, where destination and source 1 are the
\* same register
C19_GeneralOperandRoles ==
  LongDecoded =>
    LET code == InsnCode(stream)
        line == TerminalLine(stream)
        p    == (code \div 4194304) % 4
        c6   == (code \div 64) % 64
    IN  \A k \in 1 .. 3 :
          /\ (line.ops[k].tag = "GENC" /\ p # 2) =>
               IF p = 0 \/ (p = 3 /\ (code \div 32) % 2 = 0)
               THEN C19_AsRegister(raw.Operands[k], c6, line.ops[k].ind)
               ELSE C19_AsImmediate(raw.Operands[k], c6, line.ops[k].ind)
          /\ line.ops[k].tag = "GENA" =>
               /\ C19_AsRegister(raw.Operands[k],
                                 IF p <= 1 THEN code % 64 ELSE FieldB(code), FALSE)
               /\ \A j \in 1 .. 3 :
                    (p >= 2 /\ line.ops[j].tag = "GENB" /\ FieldB(code) # LIMM) =>
                      /\ raw.Operands[j].type = "o_reg"
                      /\ raw.Operands[k].type = "o_reg"
                      /\ raw.Operands[k].reg = raw.Operands[j].reg

\* add.cc r1, r1, 33: mode 11 with bit 5 set, the destination is the b field
C19_Witness ==
  /\ LongDecoded
  /\ raw.itype = "add"
  /\ (InsnCode(stream) \div 4194304) % 4 = 3
  /\ (InsnCode(stream) \div 32) % 2 = 1
  /\ InsnCode(stream) % 64 = 35
  /\ raw.Operands[1].type = "o_reg" /\ raw.Operands[1].reg = 1
  /\ raw.Operands[2].type = "o_reg" /\ raw.Operands[2].reg = 1
  /\ raw.Operands[3].type = "o_imm" /\ raw.Operands[3].value = 33

(***************************************************************************)
(* The general format: condition code and flag update.                     *)
(***************************************************************************)
\* a decoded 32-bit instruction whose table line carries AUX_GEN or AUX_GEN2
C20_GeneralEntry ==
  /\ LongDecoded
  /\ \/ TestBit(TerminalLine(stream).aux, 10)
     \/ TestBit(TerminalLine(stream).aux, 11)

\* C20: for a line with AUX_GEN or AUX_GEN2 the condition code of the
\* instruction is bits 4..0 of the word when the mode bits 23..22 are 11 and
\* zero otherwise, and the .f attribute is set exactly when bit 15 is set
\* and the line carries AUX_GEN, not AUX_GEN2 (tst, cmp, btst, lp, flag)
C20_ConditionAndFlag ==
  C20_GeneralEntry =>
    /\ BITS(raw.auxpref, 4, 0) =
         (IF (InsnCode(stream) \div 4194304) % 4 = 3 THEN InsnCode(stream) % 32 ELSE 0)
    /\ TestBit(raw.auxpref, 8) =
         (/\ (InsnCode(stream) \div 32768) % 2 = 1
          /\ TestBit(TerminalLine(stream).aux, 10)
          /\ ~TestBit(TerminalLine(stream).aux, 11))

\* cmp with bit 15 set in mode 11: the condition code 31 and no .f
C20_Witness ==
  /\ C20_GeneralEntry
  /\ raw.itype = "cmp"
  /\ TestBit(TerminalLine(stream).aux, 11)
  /\ (InsnCode(stream) \div 32768) % 2 = 1
  /\ (InsnCode(stream) \div 4194304) % 4 = 3
  /\ BITS(raw.auxpref, 4, 0) = 31
  /\ ~TestBit(raw.auxpref, 8)

(***************************************************************************)
(* Operands the table marks O_IND.                                         *)
(***************************************************************************)
\* the operand of slot k (0..2) as the switch of decode_operand leaves it,
\* before the O_IND tail: decoded on its own from the instruction word
C21_Direct(k) ==
  Op(decode_operand_switch(
       Ctx([FreshCmd(cmd.ea) EXCEPT !.itype = raw.itype, !.size = InsnLen(stream)],
           FALSE, 0),
       stream, InsnCode(stream), k, TerminalLine(stream).ops[k + 1]).m, k)

\* C21: an operand the table marks O_IND is the direct operand reclassified:
\* a register becomes a displacement with offset 0 on that register, an
\* immediate becomes a memory reference (a near code reference for j and jl)
\* whose address is the immediate value; all other fields are those of the
\* direct operand
C21_IndirectReclassified ==
  (CompactCall /\ sz # 0) =>
    \A k \in 0 .. 2 :
      TerminalLine(stream).ops[k + 1].ind =>
        LET d == C21_Direct(k)
            x == raw.Operands[k + 1]
        IN  /\ d.type \in {"o_reg", "o_imm"}
            /\ d.type = "o_reg" => x = [d EXCEPT !.type = "o_displ", !.addr = 0]
            /\ d.type = "o_imm" =>
                 x = [d EXCEPT
                        !.type = IF raw.itype \in {"j", "jl"} THEN "o_near" ELSE "o_mem",
                        !.addr = d.value]

\* j 33 (mode 01): the immediate 33 is the branch target 33
C21_Witness ==
  /\ LongDecoded
  /\ raw.itype = "j"
  /\ TerminalLine(stream).ops[1].ind
  /\ (InsnCode(stream) \div 4194304) % 4 = 1
  /\ raw.Operands[1].type = "o_near"
  /\ raw.Operands[1].addr = 33
  /\ raw.Operands[1].value = 33

(***************************************************************************)
(* Legacy pseudo instructions: and/or/add/adc with equal source fields.    *)
(***************************************************************************)
\* a finished legacy call on an add, adc, and, or word with b = c
C22_EqualSources ==
  /\ LegacyCall
  /\ LegacyI(stream) \in {8, 9, 12, 13}
  /\ LegacyB(stream) = LegacyC(stream)

\* the short immediate of the word, sign-extended from 9 bits
C22_Shimm(s) == IF LegacyD(s) >= 256 THEN LegacyD(s) - 512 ELSE LegacyD(s)

\* C22: whatever the simplify flag, a legacy and/or word with b = c is mov,
\* an adc word with b = c is rlc, an add word with b = c is lsl when b is a
\* register and mov of the doubled immediate (d * 2, or the long immediate
\* * 2) when b is 61, 62 or 63; the result has two operands, the second one
\* the common source, and the third is empty
C22_EqualSourcesFolded ==
  C22_EqualSources =>
    LET i == LegacyI(stream)
        b == LegacyB(stream)
        imm == IF b = LIMM THEN Int32(stream[3], stream[4]) ELSE C22_Shimm(stream)
    IN  /\ cmd.itype = (CASE i \in {12, 13} -> "mov"
                          [] i = 9 -> "rlc"
                          [] i = 8 -> IF b >= SHIMM_F THEN "mov" ELSE "lsl")
        /\ cmd.Operands[1].type \in {"o_reg", "o_imm"}
        /\ IF b >= SHIMM_F
           THEN /\ cmd.Operands[2].type = "o_imm"
                /\ cmd.Operands[2].value = (IF i = 8 THEN imm * 2 ELSE imm)
           ELSE /\ cmd.Operands[2].type = "o_reg"
                /\ cmd.Operands[2].reg = b
        /\ cmd.Operands[3].type = "o_void"
        /\ cmd = raw
        /\ ret = (IF b = LIMM THEN 8 ELSE 4)

\* add r1, 5, 5 with the long immediate 5, simplification off: mov r1, 10
C22_Witness ==
  /\ C22_EqualSources
  /\ "ARC_SIMPLIFY" \notin idpflags
  /\ LegacyI(stream) = 8
  /\ LegacyB(stream) = LIMM
  /\ cmd.itype = "mov"
  /\ cmd.Operands[1].type = "o_reg"
  /\ cmd.Operands[2].type = "o_imm"
  /\ cmd.Operands[2].value = 10
  /\ cmd.Operands[3].type = "o_void"

(***************************************************************************)
(* Legacy nop: the xor word 0x7FFFFFFF.                                    *)
(***************************************************************************)
\* a finished legacy call on a word of class 15 (xor)
C23_XorClass == LegacyCall /\ LegacyI(stream) = 15

\* the operand x is decoded from the register field f
C23_FromField(x, f) ==
  IF f >= SHIMM_F THEN x.type = "o_imm" ELSE x.type = "o_reg" /\ x.reg = f

\* C23: of the legacy words of class 15 exactly 0x7FFFFFFF is a nop of 4
\* bytes with no operands and auxpref 0; every other word is xor with the
\* operands of its a, b and c fields
C23_OnlyAllOnesIsNop ==
  C23_XorClass =>
    IF stream[1] = 32767 /\ stream[2] = 65535
    THEN /\ cmd.itype = "nop"
         /\ ret = 4
         /\ cmd.size = 4
         /\ cmd.auxpref = 0
         /\ \A k \in 1 .. 3 : cmd.Operands[k].type = "o_void"
    ELSE /\ cmd.itype = "xor"
         /\ ret = (IF LIMM \in {LegacyB(stream), LegacyC(stream)} THEN 8 ELSE 4)
         /\ C23_FromField(cmd.Operands[1], LegacyA(stream))
         /\ C23_FromField(cmd.Operands[2], LegacyB(stream))
         /\ C23_FromField(cmd.Operands[3], LegacyC(stream))

\* the word 0x7FFFFFFF decoded to nop
C23_Witness ==
  /\ C23_XorClass
  /\ stream[1] = 32767 /\ stream[2] = 65535
  /\ cmd.itype = "nop"
  /\ ret = 4

(***************************************************************************)
(* Legacy branches: classes 4, 5, 6.                                       *)
(***************************************************************************)
\* a finished legacy call on a word of class 4, 5 or 6
C24_BranchClass == LegacyCall /\ LegacyI(stream) \in {4, 5, 6}

\* bits 26..7 of the word, sign-extended from 20 bits
C24_L(s) ==
  LET l0 == (s[1] % 2048) * 512 + (s[2] \div 128)
  IN  IF l0 >= 524288 THEN l0 - 1048576 ELSE l0

\* C24: a legacy word of class 4, 5, 6 is b, bl, lp of 4 bytes; its first
\* operand is the code address cmd.ea + L * 4 + 4 with L = bits 26..7 sign-
\* extended from 20 bits, and cmd.auxpref is bits 8..0 of the word
C24_BranchTargetAndAttributes ==
  C24_BranchClass =>
    /\ cmd.itype = (CASE LegacyI(stream) = 4 -> "b"
                      [] LegacyI(stream) = 5 -> "bl"
                      [] LegacyI(stream) = 6 -> "lp")
    /\ cmd.Operands[1].type = "o_near"
    /\ cmd.Operands[1].addr = cmd.ea + C24_L(stream) * 4 + 4
    /\ ret = 4
    /\ cmd.size = 4
    /\ cmd.auxpref = stream[2] % 512

\* bl at address 4096 with L = -2 (bits 8..7 = 2) and condition bits 127:
\* the target is 4092
C24_Witness ==
  /\ C24_BranchClass
  /\ cmd.ea = 4096
  /\ cmd.itype = "bl"
  /\ C24_L(stream) = -2
  /\ cmd.Operands[1].type = "o_near"
  /\ cmd.Operands[1].addr = 4092
  /\ cmd.auxpref = 383

(***************************************************************************)
(* simplify(): ld/st in scaled addressing mode.                            *)
(***************************************************************************)
\* a decoded ld or st with a register + displacement second operand, with
\* simplify() as the only pass enabled: cmd is simplify() applied to raw
C25_DisplLoadStore ==
  /\ pc = "done"
  /\ sz # 0
  /\ idpflags = {"ARC_SIMPLIFY"}
  /\ raw.itype \in {"ld", "st"}
  /\ raw.Operands[2].type = "o_displ"

\* raw with the displacement of the second operand multiplied by mul and the
\* addressing mode bits 4..3 cleared
C25_Scaled(mul) ==
  [raw EXCEPT !.Operands[2].addr = @ * mul, !.auxpref = SetBits(@, 4, 3, 0)]

\* C25 as stated: in .as mode the displacement is multiplied by 4, 2 or 1 for
\* word, halfword or byte access and the addressing mode bits are cleared,
\* whatever the access width bits hold; outside .as mode nothing changes
C25_ScalesEveryWidth ==
  C25_DisplLoadStore =>
    IF BITS(raw.auxpref, 4, 3) = 3
    THEN /\ BITS(cmd.auxpref, 4, 3) = 0
         /\ BITS(raw.auxpref, 2, 1) = 0 => cmd = C25_Scaled(4)
         /\ BITS(raw.auxpref, 2, 1) = 2 => cmd = C25_Scaled(2)
         /\ BITS(raw.auxpref, 2, 1) = 1 => cmd = C25_Scaled(1)
    ELSE cmd = raw

\* C25, amended: in .as mode with the register as the base (membase 0) the
\* displacement is multiplied by 4 for word and by 2 for halfword access and
\* the addressing mode bits are cleared; with byte access or the width value
\* 3, with an immediate base, or outside .as mode nothing changes
C25_ScalesWordAndHalfword ==
  C25_DisplLoadStore =>
    IF /\ BITS(raw.auxpref, 4, 3) = 3
       /\ raw.Operands[2].membase = 0
       /\ BITS(raw.auxpref, 2, 1) \in {0, 2}
    THEN cmd = C25_Scaled(IF BITS(raw.auxpref, 2, 1) = 2 THEN 2 ELSE 4)
    ELSE cmd = raw

\* ldw.as r, [r1, 4] in compact mode: the displacement becomes 8
C25_Witness ==
  /\ C25_DisplLoadStore
  /\ ~is_a4
  /\ raw.itype = "ld"
  /\ BITS(raw.auxpref, 4, 3) = 3
  /\ BITS(raw.auxpref, 2, 1) = 2
  /\ raw.Operands[2].addr = 4
  /\ cmd.Operands[2].addr = 8
  /\ BITS(cmd.auxpref, 4, 3) = 0

(***************************************************************************)
(* simplify(): add1..3 and sub1..3.                                        *)
(***************************************************************************)
\* a decoded add1, add2, add3, sub1, sub2 or sub3, with simplify() as the
\* only pass enabled
C26_ShiftedAddSub ==
  /\ pc = "done"
  /\ sz # 0
  /\ idpflags = {"ARC_SIMPLIFY"}
  /\ raw.itype \in {"add1", "add2", "add3", "sub1", "sub2", "sub3"}

\* C26: addN/subN with an immediate third operand becomes add/sub with that
\* immediate multiplied by 2, 4, 8 for N = 1, 2, 3 and nothing else changed;
\* with any other third operand the instruction is unchanged
C26_ShiftFoldedIntoImmediate ==
  C26_ShiftedAddSub =>
    IF raw.Operands[3].type = "o_imm"
    THEN cmd = [raw EXCEPT
                  !.itype = IF raw.itype \in {"add1", "add2", "add3"} THEN "add" ELSE "sub",
                  !.Operands[3].value =
                     @ * (CASE raw.itype \in {"add1", "sub1"} -> 2
                            [] raw.itype \in {"add2", "sub2"} -> 4
                            [] raw.itype \in {"add3", "sub3"} -> 8)]
    ELSE cmd = raw

\* sub3 r3, r1, 2 with an unsigned 6-bit immediate: sub r3, r1, 16
C26_Witness ==
  /\ C26_ShiftedAddSub
  /\ raw.itype = "sub3"
  /\ raw.Operands[3].type = "o_imm"
  /\ raw.Operands[3].value = 2
  /\ cmd.itype = "sub"
  /\ cmd.Operands[3].value = 16
  /\ cmd.Operands[1] = raw.Operands[1]
  /\ cmd.Operands[2] = raw.Operands[2]
  /\ cmd.auxpref = raw.auxpref

(***************************************************************************)
(* simplify(): sub.f 0, a, b.                                              *)
(***************************************************************************)
\* a decoded sub, with simplify() as the only pass enabled
C27_Sub ==
  /\ pc = "done"
  /\ sz # 0
  /\ idpflags = {"ARC_SIMPLIFY"}
  /\ raw.itype = "sub"

\* C27: sub with .f set and the immediate 0 as first operand becomes cmp
\* with the second and third operand moved to the first and second place,
\* the third operand void and .f cleared; sub without .f or with a register
\* as first operand is unchanged
C27_SubToCmp ==
  C27_Sub =>
    IF /\ raw.Operands[1].type = "o_imm"
       /\ raw.Operands[1].value = 0
       /\ TestBit(raw.auxpref, 8)
    THEN cmd = [raw EXCEPT
                  !.itype = "cmp",
                  !.auxpref = SetBits(@, 8, 8, 0),
                  !.Operands = <<raw.Operands[2], raw.Operands[3],
                                 [raw.Operands[3] EXCEPT !.type = "o_void"]>>]
    ELSE cmd = raw

\* sub.f 0, r1, r2 in compact mode (destination field 62): cmp r1, r2
C27_Witness ==
  /\ C27_Sub
  /\ ~is_a4
  /\ TestBit(raw.auxpref, 8)
  /\ raw.Operands[1].type = "o_imm"
  /\ raw.Operands[2].type = "o_reg" /\ raw.Operands[2].reg = 1
  /\ raw.Operands[3].type = "o_reg" /\ raw.Operands[3].reg = 2
  /\ cmd.itype = "cmp"
  /\ ~TestBit(cmd.auxpref, 8)
  /\ cmd.Operands[1].type = "o_reg" /\ cmd.Operands[1].reg = 1
  /\ cmd.Operands[2].type = "o_reg" /\ cmd.Operands[2].reg = 2
  /\ cmd.Operands[3].type = "o_void"

(***************************************************************************)
(* inline_const(): pc-relative loads.                                      *)
(***************************************************************************)
\* a decoded instruction with inline_const() as the only pass enabled: cmd
\* is inline_const() applied to raw
C28_InlineOnly ==
  /\ pc = "done"
  /\ sz # 0
  /\ idpflags = {"ARC_INLINECONST"}

\* raw with the second operand rewritten to the memory reference at
\* (cmd.ea & ~3) + displacement and aux_pcload set
C28_Inlined ==
  [raw EXCEPT !.Operands[2].type = "o_mem",
              !.Operands[2].addr = (raw.ea - (raw.ea % 4)) + raw.Operands[2].addr,
              !.auxpref = SetBits(@, 9, 9, 1)]

\* ld with a displacement on PCL as second operand and word access
C28_PclWordLoad ==
  /\ raw.itype = "ld"
  /\ raw.Operands[2].type = "o_displ"
  /\ raw.Operands[2].reg = PCL
  /\ BITS(raw.auxpref, 2, 1) = 0

\* C28: the instruction is rewritten exactly when it is a word load from
\* [pcl, d] with no addressing mode set (bits 4..3 of auxpref are 0) and the
\* host reports the address readable; otherwise it is unchanged and
\* aux_pcload is not set
C28_InlinedIffPlainPclLoad ==
  C28_InlineOnly =>
    IF C28_PclWordLoad /\ BITS(raw.auxpref, 4, 3) = 0 /\ readable = "yes"
    THEN cmd = C28_Inlined
    ELSE cmd = raw /\ ~TestBit(cmd.auxpref, 9)

(***************************************************************************)
(* The two passes together.                                                *)
(***************************************************************************)
\* a decoded instruction; by C15 cmd is C29_Result(idpflags, readable = "yes")
C29_Decoded == pc = "done" /\ sz # 0

\* what ana() makes of raw under the flags fl when the host answers en
C29_Result(fl, en) ==
  LET c2 == IF "ARC_SIMPLIFY" \in fl THEN simplify(raw) ELSE raw
  IN  IF "ARC_INLINECONST" \in fl THEN inline_const(c2, en) ELSE c2

\* inline_const() rewrites the instruction under the flags fl, given that the
\* host reports the address readable
C29_Inlines(fl) == C29_Result(fl, TRUE) # C29_Result(fl \ {"ARC_INLINECONST"}, TRUE)

\* what simplify() rewrites is the same with inline_const() enabled: opcode,
\* first and third operand and the attributes other than aux_pcload are those
\* of simplify() alone, and the second operand is the one of simplify() alone
\* or the memory reference inline_const() made of it
C29_SimplifySame ==
  \A en \in BOOLEAN :
    LET s == C29_Result({"ARC_SIMPLIFY"}, en)
        b == C29_Result({"ARC_SIMPLIFY", "ARC_INLINECONST"}, en)
    IN  /\ b.itype = s.itype
        /\ b.Operands[1] = s.Operands[1]
        /\ b.Operands[3] = s.Operands[3]
        /\ SetBits(b.auxpref, 9, 9, 0) = s.auxpref
        /\ \/ b.Operands[2] = s.Operands[2]
           \/ b.Operands[2] = [s.Operands[2] EXCEPT
                                 !.type = "o_mem",
                                 !.addr = (s.ea - (s.ea % 4)) + s.Operands[2].addr]

\* a word load from [pcl, d] in .as mode
C29_ScaledPclWordLoad ==
  /\ raw.itype = "ld"
  /\ raw.Operands[2].type = "o_displ"
  /\ raw.Operands[2].reg = PCL
  /\ raw.Operands[2].membase = 0
  /\ BITS(raw.auxpref, 4, 3) = 3
  /\ BITS(raw.auxpref, 2, 1) = 0

\* C29 as stated: inline_const() rewrites the same instructions, to the same
\* address, with simplify() enabled as with it disabled, and what simplify()
\* rewrites is the same with inline_const() enabled as with it disabled
C29_PassesIndependent ==
  C29_Decoded =>
    /\ cmd = C29_Result(idpflags, readable = "yes")
    /\ C29_Inlines({"ARC_INLINECONST"}) = C29_Inlines({"ARC_SIMPLIFY", "ARC_INLINECONST"})
    /\ C29_Inlines({"ARC_INLINECONST"}) =>
         C29_Result({"ARC_INLINECONST"}, TRUE).Operands[2] =
           C29_Result({"ARC_SIMPLIFY", "ARC_INLINECONST"}, TRUE).Operands[2]
    /\ C29_SimplifySame

\* C29, amended: the same, except for a word load from [pcl, d] in .as mode:
\* inline_const() leaves it alone when simplify() is disabled and rewrites it
\* to the memory reference at (cmd.ea & ~3) + d * 4 when simplify() is enabled
C29_InlineAfterSimplify ==
  C29_Decoded =>
    /\ cmd = C29_Result(idpflags, readable = "yes")
    /\ IF C29_ScaledPclWordLoad
       THEN /\ ~C29_Inlines({"ARC_INLINECONST"})
            /\ C29_Inlines({"ARC_SIMPLIFY", "ARC_INLINECONST"})
            /\ C29_Result({"ARC_SIMPLIFY", "ARC_INLINECONST"}, TRUE).Operands[2] =
                 [raw.Operands[2] EXCEPT
                    !.type = "o_mem",
                    !.addr = (raw.ea - (raw.ea % 4)) + raw.Operands[2].addr * 4]
       ELSE /\ C29_Inlines({"ARC_INLINECONST"}) =
                 C29_Inlines({"ARC_SIMPLIFY", "ARC_INLINECONST"})
            /\ C29_Inlines({"ARC_INLINECONST"}) =>
                 C29_Result({"ARC_INLINECONST"}, TRUE).Operands[2] =
                   C29_Result({"ARC_SIMPLIFY", "ARC_INLINECONST"}, TRUE).Operands[2]
    /\ C29_SimplifySame

\* ld.as r3, [pcl, 4] at address 6 with inline_const() as the only pass: the
\* host is not asked and the load is left alone; with simplify() enabled as
\* well it is the load from 4 + 16
C29_Witness ==
  /\ C29_Decoded
  /\ idpflags = {"ARC_INLINECONST"}
  /\ cmd.ea = 6
  /\ C29_ScaledPclWordLoad
  /\ raw.Operands[2].addr = 4
  /\ readable = "na"
  /\ cmd = raw
  /\ C29_Result({"ARC_SIMPLIFY", "ARC_INLINECONST"}, TRUE).Operands[2].type = "o_mem"
  /\ C29_Result({"ARC_SIMPLIFY", "ARC_INLINECONST"}, TRUE).Operands[2].addr = 20

(***************************************************************************)
(* The opcode tables: no line leaves aux bits or an operand tag undecoded. *)
(***************************************************************************)
\* the tables a line of table t points to
C30_Subtables(t) ==
  {TableOf(t).rows[i].subtable : i \in {j \in 1 .. Len(TableOf(t).rows) : TableOf(t).rows[j].hibit}}

\* the tables reachable from the tables in S
RECURSIVE C30_Closure(_)
C30_Closure(S) ==
  LET N == S \cup UNION {C30_Subtables(t) : t \in S}
  IN  IF N = S THEN S ELSE C30_Closure(N)

\* the terminal lines with a mnemonic in the tables reachable from the root
C30_TerminalLines ==
  UNION {{TableOf(t).rows[i] :
            i \in {j \in 1 .. Len(TableOf(t).rows) :
                     ~TableOf(t).rows[j].hibit /\ TableOf(t).rows[j].mnem # ""}} :
         t \in C30_Closure({"arcompact_major"})}

\* what decode_aux() leaves of the mask aux; the bits it clears do not depend
\* on the instruction word
C30_Residual(aux) == decode_aux_steps(1, 0, [pref |-> 0, aux |-> aux]).aux

\* the switch of decode_operand() has a case for the tag of o
C30_Handled(o) ==
  decode_operand_switch(Ctx(FreshCmd(0), FALSE, 0), <<0, 0, 0, 0, 0, 0>>, 0, 0, o).ok

\* C30: every terminal line of the tables reachable from arcompact_major has
\* an aux mask that decode_aux() consumes to the last bit and operand tags
\* that decode_operand() has a case for, and no compact call emits the
\* diagnostic 'unhandled aux bits' or 'cannot decode operand'
C30_TablesWellFormed ==
  /\ pc = "idle" =>
       \A line \in C30_TerminalLines :
         /\ C30_Residual(line.aux) = 0
         /\ \A k \in 1 .. 3 : line.ops[k] # NoOp => C30_Handled(line.ops[k])
  /\ CompactCall => msgs = <<>>

\* ld r, [b, c] of major 4: the mask AAZZXD_23_15 is consumed, both operands
\* are decoded, nothing is reported
C30_Witness ==
  /\ LongDecoded
  /\ TerminalLine(stream).mnem = "ld"
  /\ TerminalLine(stream).aux = AAZZXD_23_15
  /\ TerminalLine(stream) \in C30_TerminalLines
  /\ C30_Residual(TerminalLine(stream).aux) = 0
  /\ raw.Operands[1].type # "o_void"
  /\ raw.Operands[2].type # "o_void"
  /\ msgs = <<>>
====
